---------------------------- MODULE Spec2Model ----------------------------
(***************************************************************************)
(* A model of xsc (src/xsc.py): the inline template tokenizer              *)
(* (_InlineTemplate), the template compiler (XscTemplate) and the          *)
(* execution of a compiled template (Converter.write and the write         *)
(* methods of the nodes).                                                  *)
(*                                                                         *)
(* Seven specifications share the module:                                 *)
(*   SpecTok      _InlineTemplate.__init__ scanning a string character by  *)
(*                character, then _InlineTemplate.unicode and a second     *)
(*                scan of the re-serialized text;                          *)
(*   SpecCompile  XscTemplate.__init__/_processNode walking a raw DOM;     *)
(*   SpecWrite    Converter.write executing a compiled template;           *)
(*   SpecMain     main: a compilation followed by a conversion, and the    *)
(*                exit code;                                               *)
(*   SpecSplit    splitDataSourceDefintion applied to a definition;        *)
(*   SpecDocument XscTemplate.__init__/_processNode walking a given DOM;   *)
(*   SpecNested   Converter.write executing a template of two nested Fors. *)
(***************************************************************************)
EXTENDS Integers, Sequences, FiniteSets, TLC

VARIABLES
    \* ---- _InlineTemplate.__init__ (src/xsc.py:503-538)
    templateDescripton, \* the string being scanned, a sequence of characters
    chIndex,            \* position of the next character of the for loop
    _state,             \* self._state
    _items,             \* self._items
    _text,              \* self._text
    tokResult,          \* "scan", "done" or the name of the exception raised
    pass,               \* 1: the scan of the input, 2: the scan of unicode()
    firstItems,         \* the _items of pass 1, kept for the second pass
    \* ---- XscTemplate (src/xsc.py:619-755)
    nodes,              \* the XscNode objects created so far; content is nodes[1]
    _xscStack,          \* self._xscStack, as indices into nodes
    _commandStack,      \* self._commandStack, as indices into nodes
    domStack,           \* the active calls of _processNode below the document:
                        \* the ElementNode built for the element each one walks
    documentElement,    \* whether the document element has been read
    domCount,           \* number of DOM nodes read so far
    compileResult,      \* "run", "done" or the name of the exception raised
    domDocument,        \* the DOM given to SpecDocument, as the sequence of the
                        \* starts of its nodes and the ends of its elements
    \* ---- the module's globals() (src/xsc.py:377-387, 562-563, 742)
    xscGlobals,         \* the names bound by templates: name -> value
    \* ---- Converter.write and the write methods (src/xsc.py:371-470, 847-855)
    sourceNameToSourceMap, \* Converter._sourceNameToSourceMap
    writeStack,         \* the active calls of write, outermost first
    xmlEvents,          \* the calls received by the XmlWriter, in order
    writeResult,        \* "run", "done" or the name of the exception raised
    targetXmlFile,      \* the output file: "None", "open" or "closed"
    xmlWriter,          \* the XmlWriter: "None", "entered" or "exited"
    \* ---- main (src/xsc.py:928-960)
    mainAt,             \* "options" before _parsedOptions, "try" inside the
                        \* try block of main after it, "return" after the
                        \* try block, "exit" when SystemExit leaves main
    dataSourceMap,      \* the dataSourceMap of _parsedOptions
    exitCode,           \* the local exitCode
    exitError,          \* the local exitError: "None" or the exception's name
    \* ---- splitDataSourceDefintion (src/xsc.py:797-825)
    definition,         \* the argument, a sequence of characters
    splitResult         \* the result tuple or the exception raised

tokVars == <<templateDescripton, chIndex, _state, _items, _text, tokResult,
             pass, firstItems>>

compileVars == <<nodes, _xscStack, _commandStack, domStack, documentElement,
                 domCount, compileResult>>

\* How far Converter.write has come, and its two context managers.
writeStatus == <<writeResult, targetXmlFile, xmlWriter>>

writeVars == <<sourceNameToSourceMap, writeStack, xmlEvents, writeStatus>>

mainVars == <<mainAt, dataSourceMap, exitCode, exitError>>

splitVars == <<definition, splitResult>>

vars == <<tokVars, compileVars, domDocument, xscGlobals, writeVars, mainVars,
          splitVars>>

\* What the steps of one part leave alone.
notTokVars == <<compileVars, domDocument, xscGlobals, writeVars, mainVars,
                splitVars>>
notCompileVars == <<tokVars, domDocument, writeVars, mainVars, splitVars>>
notWriteVars == <<tokVars, compileVars, domDocument, mainVars, splitVars>>
notMainVars == <<tokVars, domDocument, xscGlobals, splitVars>>
notSplitVars == <<tokVars, compileVars, domDocument, xscGlobals, writeVars,
                  mainVars>>

-----------------------------------------------------------------------------
(* Bounds *)

\* Longest input string of the tokenizer drawn exhaustively from Alphabet.
MaxLen == 5

\* Largest number of node starts and element ends inside the document
\* element of a given DOM.
MaxChildEvents == 5

\* Largest number of data source definitions on a command line.
MaxDefinitions == 2

\* Longest data source definition drawn exhaustively from DefinitionAlphabet.
MaxDefinitionLen == 4

\* Largest number of DOM nodes (elements, texts, comments, processing
\* instructions) of a template document.
MaxDom == 4

\* Largest number of nodes below the document element of an executed
\* template.
MaxNodes == 2

\* Largest number of nodes in the body of the inner of two nested Fors.
MaxBody == 2

\* Largest number of rows of a data source.
MaxRows == 2

\* Largest number of DOM nodes of a template document handed to main.
MaxMainDom == 3

-----------------------------------------------------------------------------
(***************************************************************************)
(* _InlineTemplate                                                         *)
(***************************************************************************)

_StateInText == "t"
_StateInTextAfterDollar == "$"
_StateInPlaceHolder == "*"

_ItemText == "text"
_ItemCode == "code"

\* Characters of the exhaustively enumerated inputs: an ordinary character,
\* and the three characters the scanner treats specially.
Alphabet == {"a", "$", "{", "}"}

\* Inputs of the unit tests (src/test_xsc.py:89-112, shortened to the
\* characters that matter) and of the specification's examples.
ExampleInputs ==
    { <<"h", "i">>,
      <<"$", "$">>,
      <<"$", "{", "2", "+", "3", "}">>,
      <<"a", "$", "{", "1", "}", "$", "$", "b">>,
      <<"a", "$", "{", "}", "b">> }

TokInputs == (UNION {[1..n -> Alphabet] : n \in 0..MaxLen}) \cup ExampleInputs

\* AppendItem without the test of _text: an empty _text is appended too.
AppendItemAlways(items, itemType, text) == Append(items, <<itemType, text>>)

\* _InlineTemplate._append: the item list after the call. An empty _text
\* appends nothing.
AppendItem(items, itemType, text) ==
    IF text # <<>> THEN Append(items, <<itemType, text>>) ELSE items

\* text.replace(u'$', u'$$')
RECURSIVE DoubleDollar(_)
DoubleDollar(text) ==
    IF text = <<>> THEN <<>>
    ELSE (IF Head(text) = "$" THEN <<"$", "$">> ELSE <<Head(text)>>)
         \o DoubleDollar(Tail(text))

\* _InlineTemplate.unicode
RECURSIVE Unicode(_)
Unicode(items) ==
    IF items = <<>> THEN <<>>
    ELSE (IF Head(items)[1] = _ItemCode
             THEN <<"$", "{">> \o Head(items)[2] \o <<"}">>
             ELSE DoubleDollar(Head(items)[2]))
         \o Unicode(Tail(items))

\* The fields a scan works on, as one record; raised is the name of the
\* exception raised, "" while there is none.
ScanStart ==
    [state |-> _StateInText, items |-> <<>>, text |-> <<>>, raised |-> ""]

\* InTextStep with _text set to the character read in place of being
\* extended by it.
InTextStepLast(st, ch) ==
    IF ch = "$"
      THEN [st EXCEPT !.items = AppendItem(st.items, _ItemText, st.text),
                      !.state = _StateInTextAfterDollar,
                      !.text = <<ch>>]
      ELSE [st EXCEPT !.text = <<ch>>]

\* The loop body for a character ch read in state _StateInText.
InTextStep(st, ch) ==
    IF ch = "$"
      THEN [st EXCEPT !.items = AppendItem(st.items, _ItemText, st.text),
                      !.state = _StateInTextAfterDollar,
                      !.text = <<ch>>]
      ELSE [st EXCEPT !.text = Append(st.text, ch)]

\* AfterDollarStep with the _append after "$$" left out: the "$" stays in
\* _text and the literal text that follows is added to it.
AfterDollarStepJoined(st, ch) ==
    IF ch = "$"
      THEN [st EXCEPT !.state = _StateInText]
    ELSE IF ch = "{"
      THEN [st EXCEPT !.state = _StateInPlaceHolder, !.text = <<>>]
    ELSE [st EXCEPT !.raised = "XscInlineSyntaxError"]

\* The loop body for a character ch read in state _StateInTextAfterDollar.
AfterDollarStep(st, ch) ==
    IF ch = "$"
      THEN [st EXCEPT !.items = AppendItem(st.items, _ItemText, st.text),
                      !.state = _StateInText,
                      !.text = <<>>]
    ELSE IF ch = "{"
      THEN [st EXCEPT !.state = _StateInPlaceHolder, !.text = <<>>]
    ELSE [st EXCEPT !.raised = "XscInlineSyntaxError"]

\* PlaceHolderStep appending the placeholder with the item type of text.
PlaceHolderStepAsText(st, ch) ==
    IF ch = "}"
      THEN [st EXCEPT !.items = AppendItem(st.items, _ItemText, st.text),
                      !.state = _StateInText,
                      !.text = <<>>]
      ELSE [st EXCEPT !.text = Append(st.text, ch)]

\* PlaceHolderStep that ends the placeholder at a "{" as well.
PlaceHolderStepBraces(st, ch) ==
    IF ch \in {"}", "{"}
      THEN [st EXCEPT !.items = AppendItem(st.items, _ItemCode, st.text),
                      !.state = _StateInText,
                      !.text = <<>>]
      ELSE [st EXCEPT !.text = Append(st.text, ch)]

\* The loop body for a character ch read in state _StateInPlaceHolder.
PlaceHolderStep(st, ch) ==
    IF ch = "}"
      THEN [st EXCEPT !.items = AppendItem(st.items, _ItemCode, st.text),
                      !.state = _StateInText,
                      !.text = <<>>]
      ELSE [st EXCEPT !.text = Append(st.text, ch)]

\* EndStateAccepted without the check for a placeholder left open.
EndStateAcceptedOpen(state) ==
    state \in {_StateInText, _StateInPlaceHolder}

\* The state the scan may end in without an error.
EndStateAccepted(state) == state = _StateInText

\* After the loop: the final _append, or the error for an open "$" or "${".
EndOfInput(st) ==
    IF EndStateAccepted(st.state)
      THEN [st EXCEPT !.items = AppendItem(st.items, _ItemText, st.text),
                      !.text = <<>>]
      ELSE [st EXCEPT !.raised = "XscInlineSyntaxError"]

\* The loop body, by state.
ScanChar(st, ch) ==
    IF st.state = _StateInText THEN InTextStep(st, ch)
    ELSE IF st.state = _StateInTextAfterDollar THEN AfterDollarStep(st, ch)
    ELSE PlaceHolderStep(st, ch)

\* The whole loop over s from position i on; it stops at the first raise.
RECURSIVE ScanFrom(_, _, _)
ScanFrom(s, i, st) ==
    IF i > Len(s) \/ st.raised # "" THEN st
    ELSE ScanFrom(s, i + 1, ScanChar(st, s[i]))

\* _InlineTemplate(s): the record of the constructed template, with the
\* exception raised by the constructor in raised.
InlineTemplate(s) ==
    LET st == ScanFrom(s, 1, ScanStart) IN
      IF st.raised # "" THEN st ELSE EndOfInput(st)

\* The scanner's fields as a record, and their assignment from one.
Scanner == [state |-> _state, items |-> _items, text |-> _text, raised |-> ""]

SetScanner(st) ==
    /\ _state' = st.state
    /\ _items' = st.items
    /\ _text' = st.text
    /\ tokResult' = IF st.raised # "" THEN st.raised ELSE tokResult
    /\ chIndex' = IF st.raised # "" THEN chIndex ELSE chIndex + 1

\* The values of the scanner's variables in the specifications that run no
\* scanner of their own.
TokIdle ==
    /\ templateDescripton = <<>>
    /\ chIndex = 1
    /\ _state = ScanStart.state
    /\ _items = ScanStart.items
    /\ _text = ScanStart.text
    /\ tokResult = "idle"
    /\ pass = 1
    /\ firstItems = <<>>

TokInit ==
    /\ templateDescripton \in TokInputs
    /\ chIndex = 1
    /\ _state = ScanStart.state
    /\ _items = ScanStart.items
    /\ _text = ScanStart.text
    /\ tokResult = "scan"
    /\ pass = 1
    /\ firstItems = <<>>

\* One round of "for ch in templateDescripton" in state _StateInText.
ScanInText ==
    /\ tokResult = "scan"
    /\ chIndex <= Len(templateDescripton)
    /\ _state = _StateInText
    /\ SetScanner(InTextStep(Scanner, templateDescripton[chIndex]))
    /\ UNCHANGED <<templateDescripton, pass, firstItems>>
    /\ UNCHANGED notTokVars

\* One round of the loop in state _StateInTextAfterDollar.
ScanAfterDollar ==
    /\ tokResult = "scan"
    /\ chIndex <= Len(templateDescripton)
    /\ _state = _StateInTextAfterDollar
    /\ SetScanner(AfterDollarStep(Scanner, templateDescripton[chIndex]))
    /\ UNCHANGED <<templateDescripton, pass, firstItems>>
    /\ UNCHANGED notTokVars

\* One round of the loop in state _StateInPlaceHolder.
ScanInPlaceHolder ==
    /\ tokResult = "scan"
    /\ chIndex <= Len(templateDescripton)
    /\ _state = _StateInPlaceHolder
    /\ SetScanner(PlaceHolderStep(Scanner, templateDescripton[chIndex]))
    /\ UNCHANGED <<templateDescripton, pass, firstItems>>
    /\ UNCHANGED notTokVars

\* The end of the loop: the final _append and the finished template, or
\* the error.
ScanEnd ==
    /\ tokResult = "scan"
    /\ chIndex > Len(templateDescripton)
    /\ LET st == EndOfInput(Scanner) IN
         /\ _items' = st.items
         /\ _text' = st.text
         /\ tokResult' = IF st.raised # "" THEN st.raised ELSE "done"
    /\ UNCHANGED <<templateDescripton, chIndex, _state, pass, firstItems>>
    /\ UNCHANGED notTokVars

\* unicode() of the finished template, handed to a second _InlineTemplate.
Reserialize ==
    /\ tokResult = "done"
    /\ pass = 1
    /\ pass' = 2
    /\ firstItems' = _items
    /\ templateDescripton' = Unicode(_items)
    /\ chIndex' = 1
    /\ _state' = ScanStart.state
    /\ _items' = ScanStart.items
    /\ _text' = ScanStart.text
    /\ tokResult' = "scan"
    /\ UNCHANGED notTokVars

TokNext ==
    \/ ScanInText
    \/ ScanAfterDollar
    \/ ScanInPlaceHolder
    \/ ScanEnd
    \/ Reserialize

-----------------------------------------------------------------------------
(***************************************************************************)
(* The module's globals()                                                  *)
(***************************************************************************)

\* The names templates bind and read: two riders, a name set by a python
\* block, an imported module, and the dump of the current row.
GlobalNames == {"r", "s", "x", "math", "_xscVariables"}

\* The value of a name that is not in globals().
Unbound == [type |-> "unbound"]

NoGlobals == [n \in GlobalNames |-> Unbound]

\* globals()[moduleToImport] = __import__(moduleToImport)
ModuleValue(moduleName) == [type |-> "module", name |-> moduleName]

\* The modules __import__ finds.
ImportableModules == {"math"}

-----------------------------------------------------------------------------
(***************************************************************************)
(* XscTemplate: the compilation of a DOM into a tree of XscNode            *)
(***************************************************************************)

\* Strings are sequences of atoms: a word, or one white space character.
WhiteSpace == {" ", "\n"}

\* text.split(): the maximal runs of atoms that are not white space.
RECURSIVE SplitFrom(_, _, _)
SplitFrom(data, i, word) ==
    IF i > Len(data)
      THEN (IF word = <<>> THEN <<>> ELSE <<word>>)
    ELSE IF data[i] \in WhiteSpace
      THEN (IF word = <<>> THEN <<>> ELSE <<word>>) \o SplitFrom(data, i + 1, <<>>)
    ELSE SplitFrom(data, i + 1, Append(word, data[i]))

Split(data) == SplitFrom(data, 1, <<>>)

\* data.startswith(prefix) for a prefix that is one atom.
StartsWith(data, prefix) == Len(data) >= 1 /\ data[1] = prefix

\* data[len(prefix):] for a data that starts with the atom prefix.
After(data, prefix) == Tail(data)

\* A word that is a single atom, as a name.
Name(word) == word[1]

\* The constructors of the node classes.
XscNode(name) ==
    [class |-> "XscNode", name |-> name, childNodes |-> <<>>]

XscForNode(rider) ==
    [class |-> "XscForNode", name |-> "for", rider |-> rider,
     childNodes |-> <<>>]

XscIfNode(condition) ==
    [class |-> "XscIfNode", name |-> "if", condition |-> condition,
     childNodes |-> <<>>]

XscPythonNode(code) ==
    [class |-> "XscPythonNode", name |-> "python", code |-> code,
     childNodes |-> <<>>]

\* ElementNode.__init__: whether compiling an attribute value raises, and
\* the attributeTemplates otherwise.
AttributesRaise(attributes) ==
    \E i \in 1..Len(attributes) : InlineTemplate(attributes[i][2]).raised # ""

ElementNode(name, attributes) ==
    [class |-> "ElementNode", name |-> name,
     attributeTemplates |->
         [i \in 1..Len(attributes) |->
             <<attributes[i][1], InlineTemplate(attributes[i][2]).items>>],
     childNodes |-> <<>>]

TextNode(data) ==
    [class |-> "TextNode", name |-> "text", data |-> data,
     template |-> InlineTemplate(data).items, childNodes |-> <<>>]

CommentNode(data) ==
    [class |-> "CommentNode", name |-> "comment", data |-> data,
     childNodes |-> <<>>]

\* The index of XscTemplate.content in nodes.
Content == 1

\* The DOM nodes a template document is made of.
TagNames == {"a", "b"}

AttributeLists ==
    { <<>>,
      << <<"k", <<"$", "{", "x", "}">>>> >>,
      << <<"k", <<"$">>>> >> }

TextData == { <<"t">>, <<"$", "{", "x", "}">>, <<"$", "{">> }

CommentData == { <<"$">> }

InstructionData ==
    { <<>>,
      <<"for", " ", "r">>, <<"for", " ", "s">>, <<"for">>,
      <<"for", " ", "r", " ", "s">>,
      <<"end", " ", "for">>, <<"end", " ", "if">>, <<"end">>,
      <<"end", " ", "for", " ", "r">>,
      <<"if", " ", "x">>, <<"if">>,
      <<"import", " ", "math">>, <<"import", " ", "nosuch">>, <<"import">>,
      <<"import", " ", "math", " ", "x">>,
      <<"python", "\n", "x", "=", "1">>,
      <<"For", " ", "r">>, <<"bogus", " ", "r">> }

\* Targets of processing instructions: xsc's own, and a foreign one.
Targets == {"xsc", "php"}

\* Node types _processNode has no branch for.
OtherNodeTypes == {"CDATA_SECTION_NODE"}

\* XscTemplate.currentXscNode
currentXscNode == _xscStack[Len(_xscStack)]

Front(stack) == SubSeq(stack, 1, Len(stack) - 1)

\* _addChild that puts the new node before the children there are.
AddChildFirst(objects, parent, xscNode) ==
    Append([objects EXCEPT ![parent].childNodes = <<Len(objects) + 1>> \o @],
           xscNode)

\* XscTemplate._addChild: the objects after a new node was added as the last
\* child of parent.
AddChild(objects, parent, xscNode) ==
    Append([objects EXCEPT ![parent].childNodes = Append(@, Len(objects) + 1)],
           xscNode)

\* The state after XscTemplate.__init__ has set up its stacks, before
\* _processNode(domDocument).
CompileInit ==
    /\ nodes = <<XscNode("None")>>
    /\ _xscStack = <<Content>>
    /\ _commandStack = <<>>
    /\ domStack = <<>>
    /\ documentElement = FALSE
    /\ domCount = 0
    /\ compileResult = "run"

\* The values of the compiler's variables in the specifications that
\* compile nothing.
CompileIdle ==
    /\ nodes = <<XscNode("None")>>
    /\ _xscStack = <<Content>>
    /\ _commandStack = <<>>
    /\ domStack = <<>>
    /\ documentElement = FALSE
    /\ domCount = 0
    /\ compileResult = "idle"

\* The loop of _processNode has a next child to look at.
NextChild ==
    /\ compileResult = "run"
    /\ domCount < MaxDom
    /\ domCount' = domCount + 1

\* The exception name leaves XscTemplate.__init__; nothing else changes.
Raise(exception) ==
    /\ compileResult' = exception
    /\ UNCHANGED <<nodes, _xscStack, _commandStack, domStack, documentElement>>

\* _addChild(xscNode) alone, for the nodes that are pushed on no stack.
AddOnly(xscNode) ==
    /\ nodes' = AddChild(nodes, currentXscNode, xscNode)
    /\ UNCHANGED <<_xscStack, _commandStack, domStack, documentElement,
                   compileResult>>

\* _addChild(xscNode); _pushCommand(xscNode)
AddCommand(xscNode) ==
    /\ nodes' = AddChild(nodes, currentXscNode, xscNode)
    /\ _commandStack' = Append(_commandStack, Len(nodes) + 1)
    /\ _xscStack' = Append(_xscStack, Len(nodes) + 1)
    /\ UNCHANGED <<domStack, documentElement, compileResult>>

\* AddElement without _pushXscNode(elementNode).
AddElementWithoutPush(tagName, attributes) ==
    IF AttributesRaise(attributes)
      THEN Raise("XscInlineSyntaxError")
      ELSE /\ nodes' = AddChild(nodes, currentXscNode,
                                ElementNode(tagName, attributes))
           /\ domStack' = Append(domStack, Len(nodes) + 1)
           /\ documentElement' = TRUE
           /\ UNCHANGED <<_xscStack, _commandStack, compileResult>>

\* nodeType == Node.ELEMENT_NODE, up to the recursive call. A document has
\* one document element.
\* The branch for an element with the given tag name and attributes.
AddElement(tagName, attributes) ==
    IF AttributesRaise(attributes)
      THEN Raise("XscInlineSyntaxError")
      ELSE /\ nodes' = AddChild(nodes, currentXscNode,
                                ElementNode(tagName, attributes))
           /\ _xscStack' = Append(_xscStack, Len(nodes) + 1)
           /\ domStack' = Append(domStack, Len(nodes) + 1)
           /\ documentElement' = TRUE
           /\ UNCHANGED <<_commandStack, compileResult>>

ProcessElement ==
    /\ NextChild
    /\ domStack = <<>> => ~documentElement
    /\ \E tagName \in TagNames, attributes \in AttributeLists :
         AddElement(tagName, attributes)
    /\ UNCHANGED <<xscGlobals, notCompileVars>>

\* The loop over the children of an element is over: _processNode(node)
\* returns and _popXscNode() follows.
EndOfElement ==
    /\ compileResult = "run"
    /\ domStack # <<>>
    /\ IF _xscStack = <<>>
         THEN /\ compileResult' = "AssertionError"
              /\ UNCHANGED <<_xscStack, domStack>>
         ELSE /\ _xscStack' = Front(_xscStack)
              /\ domStack' = Front(domStack)
              /\ UNCHANGED compileResult
    /\ UNCHANGED <<nodes, _commandStack, documentElement, domCount>>
    /\ UNCHANGED <<xscGlobals, notCompileVars>>

\* EndOfDocument that raises XscSyntaxError when a for or if is still open.
EndOfDocumentChecked ==
    /\ compileResult = "run"
    /\ domStack = <<>>
    /\ documentElement
    /\ compileResult' = IF _commandStack = <<>> THEN "done"
                                                ELSE "XscSyntaxError"
    /\ UNCHANGED <<nodes, _xscStack, _commandStack, domStack, documentElement,
                   domCount>>
    /\ UNCHANGED <<xscGlobals, notCompileVars>>

\* The loop over the children of the document is over: __init__ returns.
EndOfDocument ==
    /\ compileResult = "run"
    /\ domStack = <<>>
    /\ documentElement
    /\ compileResult' = "done"
    /\ UNCHANGED <<nodes, _xscStack, _commandStack, domStack, documentElement,
                   domCount>>
    /\ UNCHANGED <<xscGlobals, notCompileVars>>

\* AddText that leaves the tokenizing of the data to the first eval.
AddTextUnchecked(data) == AddOnly(TextNode(data))

\* nodeType == Node.TEXT_NODE; a document has no text outside its element.
\* nodeType == Node.TEXT_NODE for the text data.
AddText(data) ==
    IF InlineTemplate(data).raised # ""
      THEN Raise(InlineTemplate(data).raised)
      ELSE AddOnly(TextNode(data))

ProcessText ==
    /\ NextChild
    /\ domStack # <<>>
    /\ \E data \in TextData : AddText(data)
    /\ UNCHANGED <<xscGlobals, notCompileVars>>

\* nodeType == Node.COMMENT_NODE
ProcessComment ==
    /\ NextChild
    /\ \E data \in CommentData : AddOnly(CommentNode(data))
    /\ UNCHANGED <<xscGlobals, notCompileVars>>

\* An instruction for xsc with no word in it.
EmptyCommand(data) ==
    /\ Split(data) = <<>>
    /\ Raise("XscSyntaxError")

ProcessEmptyInstruction ==
    /\ NextChild
    /\ \E data \in InstructionData : EmptyCommand(data)
    /\ UNCHANGED <<xscGlobals, notCompileVars>>

\* ForCommand that takes the first word after for as the rider and ignores
\* the words after it.
ForCommandLax(data) ==
    LET words == Split(data) IN
      /\ words # <<>>
      /\ words[1] = <<"for">>
      /\ IF Len(words) < 2
           THEN Raise("XscSyntaxError")
           ELSE AddCommand(XscForNode(Name(words[2])))

\* command == 'for'
ForCommand(data) ==
    LET words == Split(data) IN
      /\ words # <<>>
      /\ words[1] = <<"for">>
      /\ IF Len(words) # 2
           THEN Raise("XscSyntaxError")
           ELSE AddCommand(XscForNode(Name(words[2])))

ProcessFor ==
    /\ NextChild
    /\ \E data \in InstructionData : ForCommand(data)
    /\ UNCHANGED <<xscGlobals, notCompileVars>>

\* EndCommand that compares the word after end with the name of the command
\* on top of _commandStack and raises XscSyntaxError when they differ.
EndCommandChecked(data) ==
    LET words == Split(data) IN
      /\ words # <<>>
      /\ words[1] = <<"end">>
      /\ IF Len(words) # 2
           THEN Raise("XscInlineSyntaxError")
         ELSE IF _commandStack = <<>> \/ _xscStack = <<>>
           THEN Raise("AssertionError")
         ELSE IF nodes[_commandStack[Len(_commandStack)]].name # Name(words[2])
           THEN Raise("XscSyntaxError")
         ELSE /\ _commandStack' = Front(_commandStack)
              /\ _xscStack' = Front(_xscStack)
              /\ UNCHANGED <<nodes, domStack, documentElement, compileResult>>

\* EndCommand that ignores an end met with no for or if open.
EndCommandTolerant(data) ==
    LET words == Split(data) IN
      /\ words # <<>>
      /\ words[1] = <<"end">>
      /\ IF Len(words) # 2
           THEN Raise("XscInlineSyntaxError")
         ELSE IF _commandStack = <<>> \/ _xscStack = <<>>
           THEN UNCHANGED <<nodes, _xscStack, _commandStack, domStack,
                            documentElement, compileResult>>
         ELSE /\ _commandStack' = Front(_commandStack)
              /\ _xscStack' = Front(_xscStack)
              /\ UNCHANGED <<nodes, domStack, documentElement, compileResult>>

\* command == 'end': _popCommand(commandToEnd)
EndCommand(data) ==
    LET words == Split(data) IN
      /\ words # <<>>
      /\ words[1] = <<"end">>
      /\ IF Len(words) # 2
           THEN Raise("XscInlineSyntaxError")
         ELSE IF _commandStack = <<>> \/ _xscStack = <<>>
           THEN Raise("AssertionError")
         ELSE /\ _commandStack' = Front(_commandStack)
              /\ _xscStack' = Front(_xscStack)
              /\ UNCHANGED <<nodes, domStack, documentElement, compileResult>>

ProcessEnd ==
    /\ NextChild
    /\ \E data \in InstructionData : EndCommand(data)
    /\ UNCHANGED <<xscGlobals, notCompileVars>>

\* IfCommand that stores the text after "if" and one separator.
IfCommandStripped(data) ==
    LET words == Split(data) IN
      /\ words # <<>>
      /\ words[1] = <<"if">>
      /\ IF Len(words) < 2
           THEN Raise("XscSyntaxError")
         ELSE IF ~StartsWith(data, "if")
           THEN Raise("NotImplementedError")
         ELSE AddCommand(XscIfNode(Tail(After(data, "if"))))

\* command == 'if'
IfCommand(data) ==
    LET words == Split(data) IN
      /\ words # <<>>
      /\ words[1] = <<"if">>
      /\ IF Len(words) < 2
           THEN Raise("XscSyntaxError")
         ELSE IF ~StartsWith(data, "if")
           THEN Raise("NotImplementedError")
         ELSE AddCommand(XscIfNode(After(data, "if")))

ProcessIf ==
    /\ NextChild
    /\ \E data \in InstructionData : IfCommand(data)
    /\ UNCHANGED <<xscGlobals, notCompileVars>>

\* command == 'import': the module is bound in globals() while compiling.
ImportCommand(data) ==
    LET words == Split(data) IN
      /\ words # <<>>
      /\ words[1] = <<"import">>
      /\ IF Len(words) # 2
           THEN Raise("XscInlineSyntaxError") /\ UNCHANGED xscGlobals
         ELSE IF Name(words[2]) \notin ImportableModules
           THEN Raise("XscError") /\ UNCHANGED xscGlobals
         ELSE /\ xscGlobals' =
                   [xscGlobals EXCEPT ![Name(words[2])] =
                        ModuleValue(Name(words[2]))]
              /\ UNCHANGED <<nodes, _xscStack, _commandStack, domStack,
                             documentElement, compileResult>>

ProcessImport ==
    /\ NextChild
    /\ \E data \in InstructionData : ImportCommand(data)
    /\ UNCHANGED notCompileVars

\* command == 'python'
PythonCommand(data) ==
    LET words == Split(data) IN
      /\ words # <<>>
      /\ words[1] = <<"python">>
      /\ AddOnly(XscPythonNode(After(data, "python")))

ProcessPython ==
    /\ NextChild
    /\ \E data \in InstructionData : PythonCommand(data)
    /\ UNCHANGED <<xscGlobals, notCompileVars>>

Commands == {<<"for">>, <<"end">>, <<"if">>, <<"import">>, <<"python">>}

\* Any other first word.
UnknownCommand(data) ==
    LET words == Split(data) IN
      /\ words # <<>>
      /\ words[1] \notin Commands
      /\ Raise("XscSyntaxError")

ProcessUnknownCommand ==
    /\ NextChild
    /\ \E data \in InstructionData : UnknownCommand(data)
    /\ UNCHANGED <<xscGlobals, notCompileVars>>

\* A processing instruction whose target is not xsc.
ProcessOtherTarget ==
    /\ NextChild
    /\ \E target \in Targets :
         /\ target # "xsc"
         /\ Raise("NotImplementedError")
    /\ UNCHANGED <<xscGlobals, notCompileVars>>

\* Any other node type.
ProcessOtherNode ==
    /\ NextChild
    /\ \E nodeType \in OtherNodeTypes : Raise("NotImplementedError")
    /\ UNCHANGED <<xscGlobals, notCompileVars>>

CompileNext ==
    \/ ProcessElement
    \/ EndOfElement
    \/ EndOfDocument
    \/ ProcessText
    \/ ProcessComment
    \/ ProcessEmptyInstruction
    \/ ProcessFor
    \/ ProcessEnd
    \/ ProcessIf
    \/ ProcessImport
    \/ ProcessPython
    \/ ProcessUnknownCommand
    \/ ProcessOtherTarget
    \/ ProcessOtherNode

-----------------------------------------------------------------------------
(***************************************************************************)
(* XscTemplate over a given DOM                                            *)
(***************************************************************************)

\* What _processNode meets in document order: the start of an element, a
\* text, an instruction for xsc, and the end of an element's children.
DomElement(tagName) == [kind |-> "element", name |-> tagName, data |-> <<>>]

DomElementEnd == [kind |-> "end", name |-> "", data |-> <<>>]

DomText(data) == [kind |-> "text", name |-> "", data |-> data]

DomInstruction(data) == [kind |-> "instruction", name |-> "xsc", data |-> data]

\* What the document element a may contain.
ChildEvents ==
    { DomElement("b"), DomElementEnd, DomText(<<"t">>),
      DomInstruction(<<"for", " ", "r">>), DomInstruction(<<"if", " ", "x">>),
      DomInstruction(<<"end", " ", "for">>), DomInstruction(<<"end", " ", "if">>) }

\* The number of elements of events that are open after the first n events.
RECURSIVE OpenElements(_, _)
OpenElements(events, n) ==
    IF n = 0 THEN 0
    ELSE OpenElements(events, n - 1)
           + (IF events[n].kind = "element" THEN 1 ELSE 0)
           - (IF events[n].kind = "end" THEN 1 ELSE 0)

\* Every end of an element has its start, and every element its end.
IsDocument(events) ==
    /\ \A n \in 1..Len(events) :
         events[n].kind = "end" => OpenElements(events, n - 1) > 0
    /\ OpenElements(events, Len(events)) = 0

\* The documents: an element a around at most MaxChildEvents events.
Documents ==
    { <<DomElement("a")>> \o events \o <<DomElementEnd>> :
        events \in { e \in UNION { [1..n -> ChildEvents] :
                                     n \in 0..MaxChildEvents } :
                       IsDocument(e) } }

\* The parse of minidom, before _processNode(domDocument).
DocumentInit ==
    /\ domDocument \in Documents
    /\ CompileInit

\* The value of domDocument in the specifications that are given no DOM.
DocumentIdle == domDocument = <<>>

\* The number of events of domDocument _processNode has gone through: the
\* nodes it has looked at and the elements it has left.
ElementsLeft ==
    Cardinality({ n \in 1..Len(nodes) : nodes[n].class = "ElementNode" })
      - Len(domStack)

domIndex == domCount + ElementsLeft

domNode == domDocument[domIndex + 1]

\* "for node in domNode.childNodes" takes the next node, of the given kind.
NextNode(kind) ==
    /\ compileResult = "run"
    /\ domIndex < Len(domDocument)
    /\ domNode.kind = kind
    /\ domCount' = domCount + 1

DocumentElement ==
    /\ NextNode("element")
    /\ AddElement(domNode.name, <<>>)
    /\ UNCHANGED <<xscGlobals, notCompileVars>>

DocumentEndOfElement ==
    /\ domIndex < Len(domDocument)
    /\ domNode.kind = "end"
    /\ EndOfElement

DocumentText ==
    /\ NextNode("text")
    /\ AddText(domNode.data)
    /\ UNCHANGED <<xscGlobals, notCompileVars>>

DocumentFor ==
    /\ NextNode("instruction")
    /\ ForCommand(domNode.data)
    /\ UNCHANGED <<xscGlobals, notCompileVars>>

DocumentIf ==
    /\ NextNode("instruction")
    /\ IfCommand(domNode.data)
    /\ UNCHANGED <<xscGlobals, notCompileVars>>

DocumentEnd ==
    /\ NextNode("instruction")
    /\ EndCommand(domNode.data)
    /\ UNCHANGED <<xscGlobals, notCompileVars>>

EndOfDomDocument ==
    /\ domIndex = Len(domDocument)
    /\ EndOfDocument

DocumentNext ==
    \/ DocumentElement
    \/ DocumentEndOfElement
    \/ DocumentText
    \/ DocumentFor
    \/ DocumentIf
    \/ DocumentEnd
    \/ EndOfDomDocument

-----------------------------------------------------------------------------
(***************************************************************************)
(* The host language, as far as templates use it                           *)
(***************************************************************************)

\* The values of names: integers, unicode strings, row views.
IntValue(number) == [type |-> "int", value |-> number]

UnicodeValue(text) == [type |-> "unicode", value |-> text]

\* A _Variables object with the given __dict__.
VariablesValue(dict) == [type |-> "_Variables", dict |-> dict]

\* _Variables().__dict__
EmptyDict == <<>>

\* dict[name] = value
DictSet(dict, name, value) ==
    [n \in DOMAIN dict \cup {name} |-> IF n = name THEN value ELSE dict[n]]

\* The integer literals templates use.
LiteralAtoms == {"0", "1", "7"}

IntOf(atom) == CASE atom = "0" -> 0 [] atom = "1" -> 1 [] atom = "7" -> 7

\* unicode(value), for a value that is no string
ToUnicode(value) ==
    CASE value.type = "int" ->
           (CASE value.value = 0 -> <<"0">>
              [] value.value = 1 -> <<"1">>
              [] value.value = 7 -> <<"7">>)
      [] value.type = "_Variables" -> <<"<xsc._Variables object>">>
      [] value.type = "module" -> <<"<module>">>

\* bool(value)
Truthy(value) ==
    CASE value.type = "int" -> value.value # 0
      [] value.type = "unicode" -> value.value # <<>>
      [] OTHER -> TRUE

\* text without the blanks it starts with.
RECURSIVE LStrip(_, _)
LStrip(text, blanks) ==
    IF text # <<>> /\ text[1] \in blanks THEN LStrip(Tail(text), blanks)
    ELSE text

\* globals()[name], for any name.
Lookup(globs, name) ==
    IF name \in GlobalNames THEN globs[name] ELSE Unbound

\* eval(expression): a record with the exception raised ("" if none), the
\* class an AttributeError complains about, and the value. The expressions
\* are an integer literal, a name, and an attribute of a name.
Evaluated(value) == [raised |-> "", className |-> "", value |-> value]

EvalRaises(exception, className) ==
    [raised |-> exception, className |-> className, value |-> Unbound]

Eval(expression, globs) ==
    LET e == LStrip(expression, {" "}) IN
    IF Len(e) = 1 /\ e[1] \in LiteralAtoms
      THEN Evaluated(IntValue(IntOf(e[1])))
    ELSE IF Len(e) = 1
      THEN (IF Lookup(globs, e[1]) = Unbound
              THEN EvalRaises("NameError", "")
              ELSE Evaluated(Lookup(globs, e[1])))
    ELSE IF Len(e) = 3 /\ e[2] = "."
      THEN (LET object == Lookup(globs, e[1]) IN
            IF object = Unbound
              THEN EvalRaises("NameError", "")
            ELSE IF object.type = "_Variables" /\ e[3] \in DOMAIN object.dict
              THEN Evaluated(object.dict[e[3]])
            ELSE EvalRaises("AttributeError", object.type))
    ELSE EvalRaises("SyntaxError", "")

\* exec code in globals(): a record with the exception raised ("" if none)
\* and the globals after it. The statements are the assignment of an integer
\* literal to a name.
Exec(code, globs) ==
    LET statement == LStrip(code, {"\n"}) IN
    IF code # <<>> /\ code[1] = " "
      THEN [raised |-> "IndentationError", globals |-> globs]
    ELSE IF statement = <<>>
      THEN [raised |-> "", globals |-> globs]
    ELSE IF /\ Len(statement) = 3
            /\ statement[1] \in GlobalNames
            /\ statement[2] = "="
            /\ statement[3] \in LiteralAtoms
      THEN [raised |-> "",
            globals |-> [globs EXCEPT ![statement[1]] =
                                          IntValue(IntOf(statement[3]))]]
    ELSE [raised |-> "SyntaxError", globals |-> globs]

-----------------------------------------------------------------------------
(***************************************************************************)
(* Converter.write: the execution of a compiled template                   *)
(***************************************************************************)

\* _Variables.setNamesAndValues, as the __dict__ it leaves.
RECURSIVE SetFrom(_, _, _, _)
SetFrom(dict, names, values, index) ==
    IF index > Len(names) THEN dict
    ELSE SetFrom(DictSet(dict, names[index], values[index]), names, values,
                 index + 1)

\* setNamesAndValues with the values taken from the end of the row: each
\* name gets the value of the mirrored position.
setNamesAndValuesMirrored(dict, names, values) ==
    SetFrom(dict, names,
            [i \in 1..Len(values) |-> values[Len(values) + 1 - i]], 1)

setNamesAndValues(dict, names, values) == SetFrom(dict, names, values, 1)

\* The asserts of setNamesAndValues.
NamesAndValuesFit(names, values) ==
    names # <<>> /\ values # <<>> /\ Len(names) = Len(values)

\* _InlineTemplate._possibleVariableName: the exception that leaves eval()
\* when an expression has raised.
EvalException(evaluation) ==
    IF evaluation.raised = "AttributeError"
       /\ evaluation.className # "_Variables"
      THEN "UnboundLocalError"
      ELSE "XscValueError"

\* The globals() after the first statement of _InlineTemplate.eval.
WithVariables(globs) ==
    IF globs["_xscVariables"] = Unbound
      THEN [globs EXCEPT !["_xscVariables"] = VariablesValue(EmptyDict)]
      ELSE globs

\* The loop of _InlineTemplate.eval over the items from position i on.
RECURSIVE EvalItems(_, _, _, _)
EvalItems(items, i, result, globs) ==
    IF i > Len(items) THEN [raised |-> "", text |-> result]
    ELSE IF items[i][1] = _ItemCode
      THEN (LET evaluation == Eval(items[i][2], globs) IN
            IF evaluation.raised # ""
              THEN [raised |-> EvalException(evaluation), text |-> result]
            ELSE IF evaluation.value.type = "unicode"
              THEN EvalItems(items, i + 1, result \o evaluation.value.value,
                             globs)
            ELSE EvalItems(items, i + 1,
                           result \o ToUnicode(evaluation.value), globs))
    ELSE EvalItems(items, i + 1, result \o items[i][2], globs)

\* _InlineTemplate.eval
InlineEval(items, globs) == EvalItems(items, 1, <<>>, WithVariables(globs))

\* The calls the XmlWriter receives.
AddNamespace(prefix, uri) ==
    [call |-> "addNamespace", name |-> prefix, value |-> uri]

StartTag(name, attributes) ==
    [call |-> "startTag", name |-> name, value |-> attributes]

EndTag(name) == [call |-> "endTag", name |-> name, value |-> <<>>]

Text(text) == [call |-> "text", name |-> "", value |-> text]

Comment(data) == [call |-> "comment", name |-> "", value |-> data]

\* Attribute names that declare a namespace with a prefix, and the prefix.
PrefixedXmlns == {"xmlns:p"}

XmlnsPrefix(name) == "p"

\* The loop with its second branch left out: a prefixed namespace attribute
\* stays among the processedAttributes.
RECURSIVE ProcessAttributesUnprefixed(_, _, _, _, _)
ProcessAttributesUnprefixed(templates, i, calls, processed, globs) ==
    IF i > Len(templates)
      THEN [raised |-> "", calls |-> calls, attributes |-> processed]
    ELSE LET name == templates[i][1]
             value == InlineEval(templates[i][2], globs)
         IN
         IF value.raised # ""
           THEN [raised |-> value.raised, calls |-> calls,
                 attributes |-> processed]
         ELSE IF name = "xmlns"
           THEN ProcessAttributesUnprefixed(templates, i + 1,
                    Append(calls, AddNamespace("", value.text)), processed,
                    WithVariables(globs))
         ELSE ProcessAttributesUnprefixed(templates, i + 1, calls,
                    DictSet(processed, name, value.text), WithVariables(globs))

\* The loop of ElementNode.write over the attributeTemplates from position
\* i on: the exception raised, the addNamespace calls, processedAttributes.
RECURSIVE ProcessAttributes(_, _, _, _, _)
ProcessAttributes(templates, i, calls, processed, globs) ==
    IF i > Len(templates)
      THEN [raised |-> "", calls |-> calls, attributes |-> processed]
    ELSE LET name == templates[i][1]
             value == InlineEval(templates[i][2], globs)
         IN
         IF value.raised # ""
           THEN [raised |-> value.raised, calls |-> calls,
                 attributes |-> processed]
         ELSE IF name = "xmlns"
           THEN ProcessAttributes(templates, i + 1,
                    Append(calls, AddNamespace("", value.text)), processed,
                    WithVariables(globs))
         ELSE IF name \in PrefixedXmlns
           THEN ProcessAttributes(templates, i + 1,
                    Append(calls, AddNamespace(XmlnsPrefix(name), value.text)),
                    processed, WithVariables(globs))
         ELSE ProcessAttributes(templates, i + 1, calls,
                    DictSet(processed, name, value.text), WithVariables(globs))

\* The data sources of a conversion: the interface's field names and the
\* validated rows, which are lists of unicode strings.
DataSource(fieldNames, data) == [fieldNames |-> fieldNames, data |-> data]

Riders == {"r", "s"}

FieldNamesOf == [r |-> <<"f", "g">>, s |-> <<"g", "f">>]

Row(values) == [i \in 1..Len(values) |-> UnicodeValue(<<values[i]>>)]

RowsOf ==
    [r |-> <<Row(<<"f1", "g1">>), Row(<<"f2", "g2">>), Row(<<"f3", "g3">>),
             Row(<<"f4", "g4">>)>>,
     s |-> <<Row(<<"G1", "F1">>), Row(<<"G2", "F2">>), Row(<<"G3", "F3">>),
             Row(<<"G4", "F4">>)>>]

SourceOf(name, rowCount) ==
    DataSource(FieldNamesOf[name], SubSeq(RowsOf[name], 1, rowCount))

\* The mappings a conversion is run with: a source r, and possibly a
\* source s.
SourceMaps ==
    {[name \in {"r"} |-> SourceOf(name, rowCount)] : rowCount \in 0..MaxRows}
    \cup
    {[name \in Riders |->
         SourceOf(name, IF name = "r" THEN rowCount ELSE otherCount)] :
       rowCount \in 0..MaxRows, otherCount \in 0..MaxRows}

\* The nodes templates are made of below the document element: the ones
\* that have children in the template, and the ones that have none.
\* The attributes of the element c: a default namespace, an ordinary
\* attribute with a place holder and a prefixed namespace.
NamespaceAttributes ==
    << <<"xmlns", <<"u">>>>,
       <<"k", <<"$", "{", "x", "}">>>>,
       <<"xmlns:p", <<"v">>>> >>

InnerNodes ==
    { ElementNode("b", <<>>), ElementNode("c", NamespaceAttributes),
      XscForNode("r"), XscForNode("s"),
      XscIfNode(<<" ", "0">>), XscIfNode(<<" ", "1">>),
      XscIfNode(<<" ", "x">>) }

LeafNodes ==
    { TextNode(<<"$", "{", "r", ".", "g", "}">>),
      TextNode(<<"$", "{", "x", "}">>),
      XscPythonNode(<<"\n", "x", "=", "1">>),
      XscPythonNode(<<"\n", "r", "=", "7">>),
      CommentNode(<<"$">>) }

\* The sequences of trees with n nodes in all. A tree is a node and the
\* sequence of the trees below it.
RECURSIVE ForestsOf(_)
ForestsOf(n) ==
    IF n = 0 THEN { <<>> }
    ELSE UNION {
           { <<[node |-> node, below |-> below]>> \o rest :
               node \in (IF m = 1 THEN InnerNodes \cup LeafNodes
                                  ELSE InnerNodes),
               below \in ForestsOf(m - 1),
               rest \in ForestsOf(n - m) } : m \in 1..n }

\* What XscTemplate.__init__ builds of a forest below parent: each node is
\* added as the last child of its parent, in document order.
RECURSIVE Compiled(_, _, _)
Compiled(forest, objects, parent) ==
    IF forest = <<>> THEN objects
    ELSE LET added == AddChild(objects, parent, forest[1].node)
             filled == Compiled(forest[1].below, added, Len(added))
         IN Compiled(Tail(forest), filled, parent)

\* The compiled templates whose document element is a.
Templates ==
    { Compiled(forest,
               AddChild(<<XscNode("None")>>, Content, ElementNode("a", <<>>)),
               2) :
        forest \in UNION { ForestsOf(n) : n \in 0..MaxNodes } }

\* The nodes the body of the inner of two nested Fors is made of.
NestedBodyNodes ==
    { ElementNode("b", <<>>), XscIfNode(<<" ", "1">>),
      TextNode(<<"$", "{", "r", ".", "g", "}">>),
      XscPythonNode(<<"\n", "r", "=", "7">>),
      CommentNode(<<"$">>) }

RECURSIVE MadeOf(_, _)
MadeOf(forest, allowed) ==
    \A k \in 1..Len(forest) :
        /\ forest[k].node \in allowed
        /\ MadeOf(forest[k].below, allowed)

\* The compiled templates
\* <a><?xsc for A?><?xsc for B?>body<?xsc end for?><?xsc end for?></a>
\* for two different riders A and B.
NestedTemplates ==
    { Compiled(<<[node |-> XscForNode(riders[1]),
                  below |-> <<[node |-> XscForNode(riders[2]),
                               below |-> body]>>]>>,
               AddChild(<<XscNode("None")>>, Content, ElementNode("a", <<>>)),
               2) :
        riders \in { pair \in Riders \X Riders : pair[1] # pair[2] },
        body \in { forest \in UNION { ForestsOf(n) : n \in 0..MaxBody } :
                     MadeOf(forest, NestedBodyNodes) } }

\* The mappings with a source for each rider.
NestedSourceMaps == { map \in SourceMaps : DOMAIN map = Riders }

\* One call of write: the node, where the call is (about to "enter", in the
\* loop over the "children", in the loop over the "rows"), how many children
\* and rows the loops have taken, and the locals of XscForNode.write.
Frame(node) ==
    [node |-> node, at |-> "enter", index |-> 0, row |-> 0,
     variables |-> EmptyDict, oldVariables |-> Unbound]

\* The loop of Converter.write over content.childNodes, as a frame.
ConverterFrame == [Frame(Content) EXCEPT !.at = "children"]

topFrame == writeStack[Len(writeStack)]

topNode == nodes[topFrame.node]

\* The top frame replaced.
WithTop(frame) == [writeStack EXCEPT ![Len(writeStack)] = frame]

\* The state when Converter.write enters its loop.
WriteInit ==
    /\ sourceNameToSourceMap \in SourceMaps
    /\ writeStack = <<ConverterFrame>>
    /\ xmlEvents = <<>>
    /\ writeResult = "run"
    /\ targetXmlFile = "open"
    /\ xmlWriter = "entered"

\* The state when Converter.write enters its loop with a source for each
\* rider.
NestedInit ==
    /\ sourceNameToSourceMap \in NestedSourceMaps
    /\ writeStack = <<ConverterFrame>>
    /\ xmlEvents = <<>>
    /\ writeResult = "run"
    /\ targetXmlFile = "open"
    /\ xmlWriter = "entered"

\* The values of these variables in the specifications that write nothing.
WriteIdle ==
    /\ sourceNameToSourceMap = <<>>
    /\ writeStack = <<>>
    /\ xmlEvents = <<>>
    /\ writeResult = "idle"
    /\ targetXmlFile = "None"
    /\ xmlWriter = "None"

\* A close after the loop in place of the with statements: an exception
\* leaves the XmlWriter entered and the file open.
WithExitOnReturn(result) ==
    IF result = "done"
      THEN /\ xmlWriter' = "exited"
           /\ targetXmlFile' = "closed"
    ELSE UNCHANGED <<targetXmlFile, xmlWriter>>

\* The end of the two with statements of Converter.write, reached by the last
\* child's return and by an exception alike: __exit__ of the XmlWriter, then
\* of the file.
WithExit(result) ==
    /\ xmlWriter' = "exited"
    /\ targetXmlFile' = "closed"

\* Converter.write is left, with "done" or with an exception.
Leave(result) ==
    /\ writeResult' = result
    /\ WithExit(result)

\* The exception leaves Converter.write; writeStack keeps the calls it went
\* through.
WriteRaise(exception) ==
    /\ Leave(exception)
    /\ UNCHANGED <<writeStack, xmlEvents>>

\* Entering that does not ask whether an exception has ended the pass.
EnteringAfterRaise(class) ==
    /\ writeStack # <<>>
    /\ topFrame.at = "enter"
    /\ topNode.class = class

\* A call of write is at its node's class, about to run its first statement.
Entering(class) ==
    /\ writeResult = "run"
    /\ writeStack # <<>>
    /\ topFrame.at = "enter"
    /\ topNode.class = class

\* A loop over childNodes has taken all children.
ChildrenDone(class) ==
    /\ writeResult = "run"
    /\ writeStack # <<>>
    /\ topFrame.at = "children"
    /\ topNode.class = class
    /\ topFrame.index = Len(topNode.childNodes)

\* write returns to its caller.
Return == writeStack' = Front(writeStack)

\* for xscNode in childNodes: xscNode.write(...), up to the call.
WriteChild ==
    /\ writeResult = "run"
    /\ writeStack # <<>>
    /\ topFrame.at = "children"
    /\ topFrame.index < Len(topNode.childNodes)
    /\ writeStack' =
         Append(WithTop([topFrame EXCEPT !.index = @ + 1]),
                Frame(topNode.childNodes[topFrame.index + 1]))
    /\ UNCHANGED <<xmlEvents, writeStatus, xscGlobals, sourceNameToSourceMap>>
    /\ UNCHANGED notWriteVars

\* The loop of Converter.write is over.
ConverterDone ==
    /\ ChildrenDone("XscNode")
    /\ Return
    /\ Leave("done")
    /\ UNCHANGED <<xmlEvents, xscGlobals, sourceNameToSourceMap>>
    /\ UNCHANGED notWriteVars

\* ElementNode.write up to the loop over the children.
ElementStart ==
    /\ Entering("ElementNode")
    /\ LET processed == ProcessAttributes(topNode.attributeTemplates, 1, <<>>,
                                          EmptyDict, xscGlobals)
       IN
       /\ xscGlobals' = IF topNode.attributeTemplates = <<>>
                          THEN xscGlobals ELSE WithVariables(xscGlobals)
       /\ IF processed.raised # ""
            THEN /\ Leave(processed.raised)
                 /\ xmlEvents' = xmlEvents \o processed.calls
                 /\ UNCHANGED writeStack
            ELSE /\ xmlEvents' =
                      Append(xmlEvents \o processed.calls,
                             StartTag(topNode.name, processed.attributes))
                 /\ writeStack' = WithTop([topFrame EXCEPT !.at = "children"])
                 /\ UNCHANGED writeStatus
    /\ UNCHANGED sourceNameToSourceMap
    /\ UNCHANGED notWriteVars

\* ElementEnd without the call of endTag.
ElementEndWithoutTag ==
    /\ ChildrenDone("ElementNode")
    /\ Return
    /\ UNCHANGED <<xmlEvents, writeStatus, xscGlobals, sourceNameToSourceMap>>
    /\ UNCHANGED notWriteVars

\* ElementNode.write after the loop over the children.
ElementEnd ==
    /\ ChildrenDone("ElementNode")
    /\ xmlEvents' = Append(xmlEvents, EndTag(topNode.name))
    /\ Return
    /\ UNCHANGED <<writeStatus, xscGlobals, sourceNameToSourceMap>>
    /\ UNCHANGED notWriteVars

\* TextNode.write
TextWrite ==
    /\ Entering("TextNode")
    /\ LET value == InlineEval(topNode.template, xscGlobals) IN
       /\ xscGlobals' = WithVariables(xscGlobals)
       /\ IF value.raised # ""
            THEN WriteRaise(value.raised)
            ELSE /\ xmlEvents' = Append(xmlEvents, Text(value.text))
                 /\ Return
                 /\ UNCHANGED writeStatus
    /\ UNCHANGED sourceNameToSourceMap
    /\ UNCHANGED notWriteVars

\* CommentNode.write
CommentWrite ==
    /\ Entering("CommentNode")
    /\ xmlEvents' = Append(xmlEvents, Comment(topNode.data))
    /\ Return
    /\ UNCHANGED <<writeStatus, xscGlobals, sourceNameToSourceMap>>
    /\ UNCHANGED notWriteVars

\* XscPythonNode.write
PythonWrite ==
    /\ Entering("XscPythonNode")
    /\ LET executed == Exec(topNode.code, xscGlobals) IN
       /\ xscGlobals' = executed.globals
       /\ IF executed.raised # ""
            THEN WriteRaise(executed.raised)
            ELSE /\ Return
                 /\ UNCHANGED <<xmlEvents, writeStatus>>
    /\ UNCHANGED sourceNameToSourceMap
    /\ UNCHANGED notWriteVars

\* IfEnter without the test of conditionFulfilled: the children are written
\* whenever the condition can be evaluated.
IfEnterAlways ==
    /\ Entering("XscIfNode")
    /\ IF topNode.childNodes = <<>>
         THEN Return /\ UNCHANGED writeStatus
         ELSE LET conditionFulfilled == Eval(topNode.condition, xscGlobals) IN
              IF conditionFulfilled.raised # ""
                THEN /\ Leave(conditionFulfilled.raised)
                     /\ UNCHANGED writeStack
                ELSE /\ writeStack' =
                          WithTop([topFrame EXCEPT !.at = "children"])
                     /\ UNCHANGED writeStatus
    /\ UNCHANGED <<xmlEvents, xscGlobals, sourceNameToSourceMap>>
    /\ UNCHANGED notWriteVars

\* IfEnter with the condition evaluated before the test of childNodes.
IfEnterEvaluatingFirst ==
    /\ Entering("XscIfNode")
    /\ LET conditionFulfilled == Eval(topNode.condition, xscGlobals) IN
       IF conditionFulfilled.raised # ""
         THEN /\ Leave(conditionFulfilled.raised)
              /\ UNCHANGED writeStack
       ELSE IF topNode.childNodes # <<>> /\ Truthy(conditionFulfilled.value)
         THEN /\ writeStack' = WithTop([topFrame EXCEPT !.at = "children"])
              /\ UNCHANGED writeStatus
       ELSE Return /\ UNCHANGED writeStatus
    /\ UNCHANGED <<xmlEvents, xscGlobals, sourceNameToSourceMap>>
    /\ UNCHANGED notWriteVars

\* XscIfNode.write up to the loop over the children.
IfEnter ==
    /\ Entering("XscIfNode")
    /\ IF topNode.childNodes = <<>>
         THEN Return /\ UNCHANGED writeStatus
         ELSE LET conditionFulfilled == Eval(topNode.condition, xscGlobals) IN
              IF conditionFulfilled.raised # ""
                THEN /\ Leave(conditionFulfilled.raised)
                     /\ UNCHANGED writeStack
              ELSE IF Truthy(conditionFulfilled.value)
                THEN /\ writeStack' =
                          WithTop([topFrame EXCEPT !.at = "children"])
                     /\ UNCHANGED writeStatus
              ELSE Return /\ UNCHANGED writeStatus
    /\ UNCHANGED <<xmlEvents, xscGlobals, sourceNameToSourceMap>>
    /\ UNCHANGED notWriteVars

\* XscIfNode.write after the loop over the children.
IfEnd ==
    /\ ChildrenDone("XscIfNode")
    /\ Return
    /\ UNCHANGED <<xmlEvents, writeStatus, xscGlobals, sourceNameToSourceMap>>
    /\ UNCHANGED notWriteVars

\* ForEnter that returns when the rider is no key of the mapping.
ForEnterSkipping ==
    /\ Entering("XscForNode")
    /\ IF topNode.rider \notin DOMAIN sourceNameToSourceMap
         THEN Return
         ELSE writeStack' =
                WithTop([topFrame EXCEPT !.at = "rows",
                                          !.variables = EmptyDict])
    /\ UNCHANGED <<writeStatus, xmlEvents, xscGlobals, sourceNameToSourceMap>>
    /\ UNCHANGED notWriteVars

\* XscForNode.write up to the loop over the rows.
ForEnter ==
    /\ Entering("XscForNode")
    /\ IF topNode.rider \notin DOMAIN sourceNameToSourceMap
         THEN /\ Leave("KeyError")
              /\ UNCHANGED writeStack
         ELSE /\ writeStack' =
                   WithTop([topFrame EXCEPT !.at = "rows",
                                             !.variables = EmptyDict])
              /\ UNCHANGED writeStatus
    /\ UNCHANGED <<xmlEvents, xscGlobals, sourceNameToSourceMap>>
    /\ UNCHANGED notWriteVars

\* LoopIsOver that ends the loop after the first row.
LoopIsOverAfterOne(frame, data) == frame.row >= Len(data) \/ frame.row >= 1

\* "for row in source.data" has taken every row.
LoopIsOver(frame, data) == frame.row >= Len(data)

\* ForNextRow that writes the children once, with nothing bound, when the
\* source has no row.
ForNextRowAtLeastOnce ==
    /\ writeResult = "run"
    /\ writeStack # <<>>
    /\ topFrame.at = "rows"
    /\ LET source == sourceNameToSourceMap[topNode.rider] IN
       IF source.data = <<>> /\ topFrame.index = 0
         THEN /\ writeStack' = WithTop([topFrame EXCEPT !.at = "children"])
              /\ UNCHANGED <<writeStatus, xscGlobals>>
       ELSE IF topFrame.row >= Len(source.data)
         THEN /\ Return
              /\ UNCHANGED <<writeStatus, xscGlobals>>
       ELSE LET row == source.data[topFrame.row + 1] IN
         IF ~NamesAndValuesFit(source.fieldNames, row)
           THEN /\ Leave("AssertionError")
                /\ UNCHANGED <<writeStack, xscGlobals>>
           ELSE LET variables == setNamesAndValues(topFrame.variables,
                                                   source.fieldNames, row)
                IN
                /\ writeStack' =
                     WithTop([topFrame EXCEPT
                                !.at = "children", !.index = 0,
                                !.row = @ + 1,
                                !.variables = variables,
                                !.oldVariables = xscGlobals["_xscVariables"]])
                /\ xscGlobals' =
                     [xscGlobals EXCEPT
                        !["_xscVariables"] = VariablesValue(variables),
                        ![topNode.rider] = VariablesValue(variables)]
                /\ UNCHANGED writeStatus
    /\ UNCHANGED <<xmlEvents, sourceNameToSourceMap>>
    /\ UNCHANGED notWriteVars

\* The loop over the rows takes the next row and binds it, or is over.
ForNextRow ==
    /\ writeResult = "run"
    /\ writeStack # <<>>
    /\ topFrame.at = "rows"
    /\ LET source == sourceNameToSourceMap[topNode.rider] IN
       IF LoopIsOver(topFrame, source.data)
         THEN /\ Return
              /\ UNCHANGED <<writeStatus, xscGlobals>>
       ELSE LET row == source.data[topFrame.row + 1] IN
         IF ~NamesAndValuesFit(source.fieldNames, row)
           THEN /\ Leave("AssertionError")
                /\ UNCHANGED <<writeStack, xscGlobals>>
           ELSE LET variables == setNamesAndValues(topFrame.variables,
                                                   source.fieldNames, row)
                IN
                /\ writeStack' =
                     WithTop([topFrame EXCEPT
                                !.at = "children", !.index = 0,
                                !.row = @ + 1,
                                !.variables = variables,
                                !.oldVariables = xscGlobals["_xscVariables"]])
                /\ xscGlobals' =
                     [xscGlobals EXCEPT
                        !["_xscVariables"] = VariablesValue(variables),
                        ![topNode.rider] = VariablesValue(variables)]
                /\ UNCHANGED writeStatus
    /\ UNCHANGED <<xmlEvents, sourceNameToSourceMap>>
    /\ UNCHANGED notWriteVars

\* The body of the loop without "del globals()[self.rider]".
ForEndRowKeepingRider ==
    /\ ChildrenDone("XscForNode")
    /\ xscGlobals' =
         [xscGlobals EXCEPT !["_xscVariables"] = topFrame.oldVariables]
    /\ writeStack' = WithTop([topFrame EXCEPT !.at = "rows"])
    /\ UNCHANGED writeStatus
    /\ UNCHANGED <<xmlEvents, sourceNameToSourceMap>>
    /\ UNCHANGED notWriteVars

\* The body of the loop with every rider deleted in place of the For's own.
ForEndRowDeletingRiders ==
    /\ ChildrenDone("XscForNode")
    /\ xscGlobals' =
         [name \in DOMAIN xscGlobals |->
            IF name \in Riders THEN Unbound
            ELSE IF name = "_xscVariables" THEN topFrame.oldVariables
            ELSE xscGlobals[name]]
    /\ writeStack' = WithTop([topFrame EXCEPT !.at = "rows"])
    /\ UNCHANGED writeStatus
    /\ UNCHANGED <<xmlEvents, sourceNameToSourceMap>>
    /\ UNCHANGED notWriteVars

\* The body of the loop over the rows after the children: the rider is
\* deleted and _xscVariables is set back.
ForEndRow ==
    /\ ChildrenDone("XscForNode")
    /\ IF xscGlobals[topNode.rider] = Unbound
         THEN /\ Leave("KeyError")
              /\ UNCHANGED <<writeStack, xscGlobals>>
         ELSE /\ xscGlobals' =
                   [xscGlobals EXCEPT
                      ![topNode.rider] = Unbound,
                      !["_xscVariables"] = topFrame.oldVariables]
              /\ writeStack' = WithTop([topFrame EXCEPT !.at = "rows"])
              /\ UNCHANGED writeStatus
    /\ UNCHANGED <<xmlEvents, sourceNameToSourceMap>>
    /\ UNCHANGED notWriteVars

WriteNext ==
    \/ WriteChild
    \/ ConverterDone
    \/ ElementStart
    \/ ElementEnd
    \/ TextWrite
    \/ CommentWrite
    \/ PythonWrite
    \/ IfEnter
    \/ IfEnd
    \/ ForEnter
    \/ ForNextRow
    \/ ForEndRow

-----------------------------------------------------------------------------
(***************************************************************************)
(* splitDataSourceDefintion and _checkPythonName (src/xsc.py:779-825)      *)
(***************************************************************************)

\* Python's None, which no sequence of characters equals.
None == <<"None">>

Letters == {"a", "d", "r"}

Digits == {"1"}

Quote == "\""

TripleQuote == <<Quote, Quote, Quote>>

\* The characters of the definitions: a letter, a digit, a blank, the two
\* separators and the quote.
DefinitionAlphabet == {"a", "1", " ", ":", "@", Quote}

Definitions ==
    UNION { [1..n -> DefinitionAlphabet] : n \in 0..MaxDefinitionLen }

\* text.find(sub, start) with positions from 1; 0 where Python gives -1.
Find(text, sub, start) ==
    LET found == { i \in start..(Len(text) - Len(sub) + 1) :
                       SubSeq(text, i, i + Len(sub) - 1) = sub }
    IN  IF found = {} THEN 0
        ELSE CHOOSE i \in found : \A j \in found : i <= j

\* The first position from pos on that holds no character of chars.
RECURSIVE RunEnd(_, _, _)
RunEnd(text, pos, chars) ==
    IF pos <= Len(text) /\ text[pos] \in chars
      THEN RunEnd(text, pos + 1, chars)
    ELSE pos

\* tokenize.generate_tokens over the one line text, from position pos: the
\* types of the tokens outside TokyTypesToSkip in order, closed by
\* "TokenError" where the generator raises it (the end of the input inside a
\* triple quoted string). Blanks separate tokens and give at most INDENT and
\* DEDENT, which are skipped.
RECURSIVE GenerateTokens(_, _)
GenerateTokens(text, pos) ==
    IF pos > Len(text) THEN <<>>
    ELSE IF text[pos] = " " THEN GenerateTokens(text, pos + 1)
    ELSE IF text[pos] \in Letters
      THEN <<"NAME">> \o
           GenerateTokens(text, RunEnd(text, pos, Letters \cup Digits))
    ELSE IF text[pos] \in Digits
      THEN <<"NUMBER">> \o GenerateTokens(text, RunEnd(text, pos, Digits))
    ELSE IF text[pos] = Quote
      THEN IF Find(text, TripleQuote, pos) = pos
             THEN LET end == Find(text, TripleQuote, pos + 3) IN
                  IF end = 0 THEN <<"TokenError">>
                  ELSE <<"STRING">> \o GenerateTokens(text, end + 3)
           ELSE LET end == Find(text, <<Quote>>, pos + 1) IN
                IF end = 0
                  THEN <<"ERRORTOKEN">> \o GenerateTokens(text, pos + 1)
                ELSE <<"STRING">> \o GenerateTokens(text, end + 1)
    ELSE <<"OP">> \o GenerateTokens(text, pos + 1)

\* _checkPythonName(name, text): "" when it returns, else the exception. The
\* first token must be a NAME and a second token raises; an exception of the
\* generator arrives when the loop asks for the token that raises it.
_checkPythonName(text) ==
    LET tokens == GenerateTokens(text, 1) IN
    IF tokens = <<>> THEN "XscSyntaxError"
    ELSE IF tokens[1] = "TokenError" THEN "TokenError"
    ELSE IF tokens[1] # "NAME" THEN "XscSyntaxError"
    ELSE IF Len(tokens) = 1 THEN ""
    ELSE IF tokens[2] = "TokenError" THEN "TokenError"
    ELSE "XscSyntaxError"

SplitResult(raised, dataSourceName, dataSourcePath, cidPath) ==
    [raised |-> raised, dataSourceName |-> dataSourceName,
     dataSourcePath |-> dataSourcePath, cidPath |-> cidPath]

\* splitDataSourceDefintion(definition)
splitDataSourceDefintion(text) ==
    LET colonIndex == Find(text, <<":">>, 1)
        hasColon == colonIndex # 0
        dataSourceName == IF hasColon THEN SubSeq(text, 1, colonIndex - 1)
                          ELSE text
        raised == _checkPythonName(dataSourceName)
        afterColon == SubSeq(text, colonIndex + 1, Len(text))
        atIndex == Find(afterColon, <<"@">>, 1)
    IN
    IF raised # "" THEN SplitResult(raised, None, None, None)
    ELSE IF ~hasColon THEN SplitResult("", dataSourceName, None, None)
    ELSE IF atIndex = 0 THEN SplitResult("", dataSourceName, afterColon, None)
    ELSE SplitResult("", dataSourceName, SubSeq(afterColon, 1, atIndex - 1),
                     SubSeq(afterColon, atIndex + 1, Len(afterColon)))

\* Before the call.
NotSplit == SplitResult("idle", None, None, None)

SplitInit ==
    /\ definition \in Definitions
    /\ splitResult = NotSplit

\* The values of these variables in the specifications that split nothing.
SplitIdle ==
    /\ definition = <<>>
    /\ splitResult = SplitResult("none", None, None, None)

SplitDefinition ==
    /\ splitResult = NotSplit
    /\ splitResult' = splitDataSourceDefintion(definition)
    /\ UNCHANGED definition
    /\ UNCHANGED notSplitVars

SplitNext == SplitDefinition

-----------------------------------------------------------------------------
(***************************************************************************)
(* main                                                                    *)
(***************************************************************************)

\* The values of main's variables in the specifications that run no main.
MainIdle ==
    /\ mainAt = "idle"
    /\ dataSourceMap = <<>>
    /\ exitCode = 1
    /\ exitError = "None"

\* main before the try block: exitCode = 1, exitError = None.
MainInit ==
    /\ mainAt = "options"
    /\ dataSourceMap = <<>>
    /\ exitCode = 1
    /\ exitError = "None"

\* The command lines: an --output option or none, and the other arguments:
\* none, or a template path followed by at most MaxDefinitions data source
\* definitions.
TemplatePaths == {"t.xsc", "t.xml"}

OutXmlPaths == {"None", "o.xml"}

SourceDefinitions == { <<"r", ":", "d">>, <<"1">>, TripleQuote }

MainArguments ==
    [outXmlPath : OutXmlPaths,
     others : { <<>> } \cup
              { <<xscTemplatePath>> \o sourceDefinitions :
                    xscTemplatePath \in TemplatePaths,
                    sourceDefinitions \in
                        UNION { [1..n -> SourceDefinitions] :
                                    n \in 0..MaxDefinitions } }]

\* os.path.splitext(xscTemplatePath)[1].lower()
Suffix(xscTemplatePath) ==
    IF xscTemplatePath = "t.xml" THEN ".xml" ELSE ".xsc"

\* The loop of _parsedOptions over the sourceDefinitions from position i on:
\* parser.error, for an XscSyntaxError and for a duplicate name, leaves with
\* SystemExit; any other exception of splitDataSourceDefintion leaves as it
\* is.
RECURSIVE SourcesFrom(_, _, _)
SourcesFrom(sourceDefinitions, i, sources) ==
    IF i > Len(sourceDefinitions) THEN [raised |-> "", dataSourceMap |-> sources]
    ELSE LET split == splitDataSourceDefintion(sourceDefinitions[i]) IN
         IF split.raised = "XscSyntaxError"
           THEN [raised |-> "SystemExit", dataSourceMap |-> sources]
         ELSE IF split.raised # ""
           THEN [raised |-> split.raised, dataSourceMap |-> sources]
         ELSE IF split.dataSourceName \in DOMAIN sources
           THEN [raised |-> "SystemExit", dataSourceMap |-> sources]
         ELSE SourcesFrom(sourceDefinitions, i + 1,
                  DictSet(sources, split.dataSourceName,
                          <<split.dataSourcePath, split.cidPath>>))

\* _parsedOptions(arguments): the exception that leaves it, or "" and the
\* dataSourceMap.
_parsedOptions(arguments) ==
    IF arguments.others = <<>>
      THEN [raised |-> "SystemExit", dataSourceMap |-> EmptyDict]
    ELSE LET sources == SourcesFrom(Tail(arguments.others), 1, EmptyDict) IN
         IF sources.raised # "" THEN sources
         ELSE IF /\ arguments.outXmlPath = "None"
                 /\ Suffix(Head(arguments.others)) = ".xml"
           THEN [raised |-> "SystemExit", dataSourceMap |-> sources.dataSourceMap]
         ELSE sources

\* The first statement of the try block. SystemExit is no Exception and
\* leaves main; another exception is handled by "except Exception".
MainParsedOptions ==
    /\ mainAt = "options"
    /\ \E arguments \in MainArguments :
         LET parsed == _parsedOptions(arguments) IN
         IF parsed.raised = "SystemExit"
           THEN /\ mainAt' = "exit"
                /\ UNCHANGED <<dataSourceMap, exitError>>
         ELSE IF parsed.raised # ""
           THEN /\ mainAt' = "return"
                /\ exitError' = parsed.raised
                /\ UNCHANGED dataSourceMap
         ELSE /\ mainAt' = "try"
              /\ dataSourceMap' = parsed.dataSourceMap
              /\ UNCHANGED exitError
    /\ UNCHANGED <<exitCode, compileVars, writeVars>>
    /\ UNCHANGED notMainVars

\* convert reading the data of the sources of dataSourceMap: the sources
\* with any number of rows up to MaxRows. The name is the key as a string.
MainSourceMaps(sources) ==
    { [name \in {dataSourceName[1] : dataSourceName \in DOMAIN sources} |->
          SourceOf(name, rowCount)] : rowCount \in 0..MaxRows }

\* XscTemplate(xscTemplatePath), one step of it, for a document of at most
\* MaxMainDom nodes.
MainCompile ==
    /\ mainAt = "try"
    /\ CompileNext
    /\ domCount' <= MaxMainDom

\* "if dataSourceMap" left out: convert is called with no data source too.
MainConvertAlways ==
    /\ mainAt = "try"
    /\ compileResult = "done"
    /\ writeResult = "idle"
    /\ sourceNameToSourceMap' \in MainSourceMaps(dataSourceMap)
    /\ writeStack' = <<ConverterFrame>>
    /\ writeResult' = "run"
    /\ targetXmlFile' = "open"
    /\ xmlWriter' = "entered"
    /\ UNCHANGED <<xmlEvents, exitCode, mainAt>>
    /\ UNCHANGED <<dataSourceMap, exitError, compileVars>>
    /\ UNCHANGED notMainVars

\* "if dataSourceMap: convert(...)": with no data source the template is
\* only validated and exitCode becomes 0; otherwise convert builds the
\* Converter from the sources and calls its write.
MainConvert ==
    /\ mainAt = "try"
    /\ compileResult = "done"
    /\ writeResult = "idle"
    /\ IF dataSourceMap = <<>>
         THEN /\ exitCode' = 0
              /\ mainAt' = "return"
              /\ UNCHANGED writeVars
         ELSE /\ sourceNameToSourceMap' \in MainSourceMaps(dataSourceMap)
              /\ writeStack' = <<ConverterFrame>>
              /\ writeResult' = "run"
              /\ targetXmlFile' = "open"
              /\ xmlWriter' = "entered"
              /\ UNCHANGED <<xmlEvents, exitCode, mainAt>>
    /\ UNCHANGED <<dataSourceMap, exitError, compileVars>>
    /\ UNCHANGED notMainVars

\* One step of Converter.write.
MainWrite ==
    /\ mainAt = "try"
    /\ WriteNext

\* convert has returned: exitCode = 0.
MainDone ==
    /\ mainAt = "try"
    /\ writeResult = "done"
    /\ exitCode' = 0
    /\ mainAt' = "return"
    /\ UNCHANGED <<dataSourceMap, exitError, compileVars, writeVars>>
    /\ UNCHANGED notMainVars

\* "except Exception, error": the exception of XscTemplate or of convert
\* becomes exitError, exitCode stays as it is.
MainExcept ==
    /\ mainAt = "try"
    /\ \/ /\ compileResult \notin {"run", "done"}
          /\ exitError' = compileResult
       \/ /\ writeResult \notin {"idle", "run", "done"}
          /\ exitError' = writeResult
    /\ mainAt' = "return"
    /\ UNCHANGED <<dataSourceMap, exitCode, compileVars, writeVars>>
    /\ UNCHANGED notMainVars

MainNext ==
    \/ MainParsedOptions
    \/ MainCompile
    \/ MainConvert
    \/ MainWrite
    \/ MainDone
    \/ MainExcept

-----------------------------------------------------------------------------
(***************************************************************************)
(* Specifications                                                          *)
(***************************************************************************)

InitCompile ==
    /\ CompileInit
    /\ xscGlobals = NoGlobals
    /\ TokIdle
    /\ WriteIdle
    /\ MainIdle
    /\ SplitIdle
    /\ DocumentIdle

SpecCompile == InitCompile /\ [][CompileNext]_vars

InitTok ==
    /\ TokInit
    /\ CompileIdle
    /\ xscGlobals = NoGlobals
    /\ WriteIdle
    /\ MainIdle
    /\ SplitIdle
    /\ DocumentIdle

SpecTok == InitTok /\ [][TokNext]_vars

\* A conversion of a compiled template: XscTemplate.__init__ has returned.
InitWrite ==
    /\ nodes \in Templates
    /\ _xscStack = <<Content>>
    /\ _commandStack = <<>>
    /\ domStack = <<>>
    /\ documentElement = TRUE
    /\ domCount = 0
    /\ compileResult = "done"
    /\ xscGlobals = NoGlobals
    /\ TokIdle
    /\ WriteInit
    /\ MainIdle
    /\ SplitIdle
    /\ DocumentIdle

SpecWrite == InitWrite /\ [][WriteNext]_vars

\* A conversion of a compiled template of two nested Fors.
InitNested ==
    /\ nodes \in NestedTemplates
    /\ _xscStack = <<Content>>
    /\ _commandStack = <<>>
    /\ domStack = <<>>
    /\ documentElement = TRUE
    /\ domCount = 0
    /\ compileResult = "done"
    /\ xscGlobals = NoGlobals
    /\ TokIdle
    /\ NestedInit
    /\ MainIdle
    /\ SplitIdle
    /\ DocumentIdle

SpecNested == InitNested /\ [][WriteNext]_vars

\* main called with a template path and data sources.
InitMain ==
    /\ CompileInit
    /\ xscGlobals = NoGlobals
    /\ TokIdle
    /\ WriteIdle
    /\ MainInit
    /\ SplitIdle
    /\ DocumentIdle

SpecMain == InitMain /\ [][MainNext]_vars

InitSplit ==
    /\ SplitInit
    /\ DocumentIdle
    /\ TokIdle
    /\ CompileIdle
    /\ xscGlobals = NoGlobals
    /\ WriteIdle
    /\ MainIdle

SpecSplit == InitSplit /\ [][SplitNext]_vars

InitDocument ==
    /\ DocumentInit
    /\ xscGlobals = NoGlobals
    /\ TokIdle
    /\ WriteIdle
    /\ MainIdle
    /\ SplitIdle

SpecDocument == InitDocument /\ [][DocumentNext]_vars


-----------------------------------------------------------------------------
(***************************************************************************)
(* Claims about the tokenizer (checked under SpecTok)                      *)
(***************************************************************************)

Min(S) == CHOOSE x \in S : \A y \in S : x <= y

\* Whether sub occurs in s as a contiguous run of characters.
HasSub(s, sub) ==
    \E i \in 1..Len(s) :
        /\ i + Len(sub) - 1 <= Len(s)
        /\ \A j \in 1..Len(sub) : s[i + j - 1] = sub[j]

\* The position after the first "}" at or after position i of s, 0 if none.
AfterCloser(s, i) ==
    LET closers == {k \in i..Len(s) : s[k] = "}"} IN
      IF closers = {} THEN 0 ELSE Min(closers) + 1

\* Reading s from the left, starting at literal position i: a "$" followed
\* by something other than "$" or "{", a "$" at the very end, or a "${" that
\* is never closed.
RECURSIVE MalformedFrom(_, _)
MalformedFrom(s, i) ==
    IF i > Len(s) THEN FALSE
    ELSE IF s[i] # "$" THEN MalformedFrom(s, i + 1)
    ELSE IF i = Len(s) THEN TRUE
    ELSE IF s[i + 1] = "$" THEN MalformedFrom(s, i + 2)
    ELSE IF s[i + 1] = "{"
            THEN (IF AfterCloser(s, i + 2) = 0 THEN TRUE
                  ELSE MalformedFrom(s, AfterCloser(s, i + 2)))
    ELSE TRUE

\* The number of "$$" in literal position of a well formed s, from position i.
RECURSIVE EscapesFrom(_, _)
EscapesFrom(s, i) ==
    IF i > Len(s) THEN 0
    ELSE IF s[i] # "$" THEN EscapesFrom(s, i + 1)
    ELSE IF s[i + 1] = "$" THEN 1 + EscapesFrom(s, i + 2)
    ELSE EscapesFrom(s, AfterCloser(s, i + 2))

DollarItems(items) ==
    {i \in 1..Len(items) : items[i] = <<_ItemText, <<"$">>>>}

HasDollar(text) == \E j \in 1..Len(text) : text[j] = "$"

TokFinished == tokResult # "scan"

\* C7: tokenizing raises XscInlineSyntaxError exactly when, read from the
\* left, a "$" in literal position is followed by a character other than "$"
\* or "{", or ends the input, or opens a "${" that is never closed; every
\* other input ends with a segment sequence and no error.
C7_ErrorExactlyWhenMalformed ==
    TokFinished =>
        /\ tokResult \in {"done", "XscInlineSyntaxError"}
        /\ (tokResult = "XscInlineSyntaxError")
               <=> MalformedFrom(templateDescripton, 1)

\* C7 witness: the input ended inside a "${" placeholder and the error was
\* raised.
C7_Witness ==
    /\ tokResult = "XscInlineSyntaxError"
    /\ _state = _StateInPlaceHolder
    /\ chIndex > Len(templateDescripton)

\* C8 (the claim as stated): tokenizing unicode() of the segments of any
\* string that tokenizes yields the very same segment sequence.
C8_RoundTripSameItems ==
    (pass = 2 /\ TokFinished) => (tokResult = "done" /\ _items = firstItems)

SameKindNeighbours(items) ==
    \E i \in 1..Len(items) : i < Len(items) /\ items[i][1] = items[i + 1][1]

\* C9 (the claim as stated): no two consecutive segments of a tokenized
\* string have the same kind.
C9_NoSameKindNeighbours ==
    tokResult = "done" => ~SameKindNeighbours(_items)

\* C9 (amended): two consecutive segments have the same kind only where a
\* "$" construct separated them in the input: an input with no "$$", no
\* "${}" and no "}$" in it never yields two consecutive segments of the same
\* kind.
C9_SameKindOnlyAtDollar ==
    (/\ tokResult = "done"
     /\ ~HasSub(templateDescripton, <<"$", "$">>)
     /\ ~HasSub(templateDescripton, <<"$", "{", "}">>)
     /\ ~HasSub(templateDescripton, <<"}", "$">>))
        => ~SameKindNeighbours(_items)

\* C9 witness: literal text followed by a placeholder gave a literal and an
\* expression segment.
C9_Witness ==
    /\ tokResult = "done"
    /\ pass = 1
    /\ templateDescripton = <<"a", "$", "{", "a", "}">>
    /\ _items = << <<_ItemText, <<"a">>>>, <<_ItemCode, <<"a">>>> >>

\* C10: every "$$" in literal position yields a literal segment that is
\* exactly "$" and stays apart from the literal text around it: there are as
\* many "$" segments as "$$" escapes, no other literal segment holds a "$",
\* "a${1}$$b" gives [literal a, expression 1, literal $, literal b] and "$$"
\* gives [literal $].
C10_DollarIsOwnSegment ==
    tokResult = "done" =>
        /\ Cardinality(DollarItems(_items)) = EscapesFrom(templateDescripton, 1)
        /\ \A i \in 1..Len(_items) :
               (_items[i][1] = _ItemText /\ HasDollar(_items[i][2]))
                   => _items[i][2] = <<"$">>
        /\ templateDescripton = <<"a", "$", "{", "1", "}", "$", "$", "b">>
               => _items = << <<_ItemText, <<"a">>>>, <<_ItemCode, <<"1">>>>,
                              <<_ItemText, <<"$">>>>, <<_ItemText, <<"b">>>> >>
        /\ templateDescripton = <<"$", "$">>
               => _items = << <<_ItemText, <<"$">>>> >>

\* C10 witness: "a${1}$$b" was tokenized to its four segments.
C10_Witness ==
    /\ tokResult = "done"
    /\ pass = 1
    /\ templateDescripton = <<"a", "$", "{", "1", "}", "$", "$", "b">>
    /\ Len(_items) = 4
    /\ _items[3] = <<_ItemText, <<"$">>>>

\* C11 (the claim as stated): a string without "$", the empty string
\* included, is tokenized without error to exactly one literal segment whose
\* text is the string.
C11_NoDollarOneLiteral ==
    (TokFinished /\ ~HasDollar(templateDescripton))
        => /\ tokResult = "done"
           /\ _items = << <<_ItemText, templateDescripton>> >>

\* C11 (amended): a string without "$" that is not empty is tokenized
\* without error to exactly one literal segment whose text is the string;
\* the empty string is tokenized without error to no segment at all.
C11_NoDollarOneLiteralUnlessEmpty ==
    (TokFinished /\ ~HasDollar(templateDescripton))
        => /\ tokResult = "done"
           /\ _items = IF templateDescripton = <<>>
                         THEN <<>>
                         ELSE << <<_ItemText, templateDescripton>> >>

\* C11 witness: "hi" was tokenized to the one literal segment "hi".
C11_Witness ==
    /\ tokResult = "done"
    /\ pass = 1
    /\ templateDescripton = <<"h", "i">>
    /\ _items = << <<_ItemText, <<"h", "i">>>> >>

\* The input is "${" E "}" for a non-empty E without "}".
OnePlaceHolder(s) ==
    /\ Len(s) >= 4
    /\ s[1] = "$"
    /\ s[2] = "{"
    /\ s[Len(s)] = "}"
    /\ \A k \in 3..(Len(s) - 1) : s[k] # "}"

\* C12: "${" E "}" for a non-empty E without "}" is tokenized without error
\* to exactly one expression segment whose text is E as written, "$" and "{"
\* in E included.
C12_PlaceHolderVerbatim ==
    (TokFinished /\ OnePlaceHolder(templateDescripton))
        => /\ tokResult = "done"
           /\ _items = << <<_ItemCode,
                            SubSeq(templateDescripton, 3,
                                   Len(templateDescripton) - 1)>> >>

\* C12 witness: "${${}" was tokenized to the one expression segment "${".
C12_Witness ==
    /\ tokResult = "done"
    /\ pass = 1
    /\ templateDescripton = <<"$", "{", "$", "{", "}">>
    /\ _items = << <<_ItemCode, <<"$", "{">>>> >>

\* C13: at no point of a scan, and in no finished template, is there a
\* segment whose text is empty; the empty string and "${}" give no segment,
\* "a${}b" gives the two literal segments a and b.
C13_NoEmptySegment ==
    /\ \A i \in 1..Len(_items) : Len(_items[i][2]) >= 1
    /\ (tokResult = "done" /\ templateDescripton \in {<<>>, <<"$", "{", "}">>})
         => _items = <<>>
    /\ (tokResult = "done" /\ templateDescripton = <<"a", "$", "{", "}", "b">>)
         => _items = << <<_ItemText, <<"a">>>>, <<_ItemText, <<"b">>>> >>

\* C13 witness: "a${}b" was tokenized; the empty placeholder left nothing.
C13_Witness ==
    /\ tokResult = "done"
    /\ pass = 1
    /\ templateDescripton = <<"a", "$", "{", "}", "b">>
    /\ Len(_items) = 2

-----------------------------------------------------------------------------
(***************************************************************************)
(* Claims about the compiler (checked under SpecCompile)                   *)
(***************************************************************************)

\* XscInlineSyntaxError is a subclass of XscSyntaxError.
XscSyntaxErrors == {"XscSyntaxError", "XscInlineSyntaxError"}

CommandClasses == {"XscForNode", "XscIfNode"}

\* The node on top of the stack of insertion points is an open for or if.
CommandOnTop ==
    /\ _xscStack # <<>>
    /\ nodes[currentXscNode].class \in CommandClasses

\* C1 (the claim as stated): a template whose for or if has no end is never
\* accepted: when the whole DOM has been walked and __init__ returns, no
\* command is left on the stack of open commands (a template with one left
\* ends in XscSyntaxError instead).
C1_UnterminatedRaises ==
    compileResult = "done" => _commandStack = <<>>

\* C2 (the claim as stated): reaching the end of an element while a for or
\* if opened among its children is still open, and reading an end inside a
\* child element of the scope in which the for or if was opened, each make
\* the compilation fail with a syntax error.
C2_ClosedInOwnScope ==
    [][ ( \/ (EndOfElement /\ CommandOnTop)
          \/ (/\ ProcessEnd
              /\ _commandStack # <<>>
              /\ currentXscNode # _commandStack[Len(_commandStack)]) )
        => compileResult' \in XscSyntaxErrors ]_vars

\* The step of _processNode for an instruction for xsc with the given data.
XscInstruction(data) ==
    \/ EmptyCommand(data)
    \/ ForCommand(data)
    \/ EndCommand(data)
    \/ IfCommand(data)
    \/ ImportCommand(data)
    \/ PythonCommand(data)
    \/ UnknownCommand(data)

\* The number of words of an instruction, and the commands that take
\* exactly one word after their name.
WordCount(data) == Len(Split(data))

OneArgumentCommands == {<<"for">>, <<"end">>, <<"import">>}

\* The instructions C19 is about: no word, a first word that is no command,
\* for, end or import with other than two words, if with one word.
Rejected(data) ==
    \/ WordCount(data) = 0
    \/ /\ WordCount(data) >= 1
       /\ \/ Split(data)[1] \notin Commands
          \/ Split(data)[1] \in OneArgumentCommands /\ WordCount(data) # 2
          \/ Split(data)[1] = <<"if">> /\ WordCount(data) < 2

\* C19: the step of the compiler for an instruction that is empty, or
\* starts with a word other than for, end, if, import, python, or is a for,
\* end or import of other than two words, or an if of one word, ends the
\* compilation with XscSyntaxError or XscInlineSyntaxError and leaves the
\* tree, both stacks and globals() as they are.
C19_MalformedInstructionRejected ==
    [][ \A data \in InstructionData :
          (compileResult = "run" /\ Rejected(data) /\ XscInstruction(data))
            => /\ compileResult' \in XscSyntaxErrors
               /\ UNCHANGED <<nodes, _xscStack, _commandStack, xscGlobals>>
      ]_vars

\* C19 witness: an instruction read inside an open for, in an element, was
\* rejected with XscSyntaxError, which only instructions raise; the open for
\* is still on both stacks.
C19_Witness ==
    /\ compileResult = "XscSyntaxError"
    /\ _commandStack # <<>>
    /\ CommandOnTop
    /\ Len(nodes) >= 3

\* Every node of _commandStack is on _xscStack, in the same order.
CommandsOnXscStack ==
    \A i \in 1..Len(_commandStack) :
        \E k \in 1..Len(_xscStack) :
            /\ _xscStack[k] = _commandStack[i]
            /\ \A j \in 1..(i - 1) :
                  \E m \in 1..(k - 1) : _xscStack[m] = _commandStack[j]

\* C27 (the claim as stated): at every point of the compilation the nodes of
\* _commandStack are on _xscStack too, in the same order, and an end that
\* pops takes the same node, the innermost open command, from both stacks.
C27_StacksConsistent ==
    /\ []CommandsOnXscStack
    /\ [][ (ProcessEnd /\ _commandStack' # _commandStack)
            => /\ _commandStack[Len(_commandStack)] = _xscStack[Len(_xscStack)]
               /\ _commandStack' = Front(_commandStack)
               /\ _xscStack' = Front(_xscStack) ]_vars

\* An end with one word after it.
IsEnd(data) == WordCount(data) = 2 /\ Split(data)[1] = <<"end">>

\* The step of _processNode that reads the instruction data and pops the
\* innermost open command without an exception.
EndPops(data) ==
    /\ NextChild
    /\ EndCommand(data)
    /\ _commandStack' = Front(_commandStack)
    /\ compileResult' = "run"
    /\ UNCHANGED <<xscGlobals, notCompileVars>>

\* C28: while a for or if is open, the step for "end for" and the step for
\* "end if" alike pop the innermost open command, whatever its kind, raise
\* nothing and leave the tree as it is; both steps are possible for an open
\* for and for an open if.
C28_EndPopsWhateverTheName ==
    /\ [][ \A data \in InstructionData :
              ( /\ compileResult = "run"
                /\ _commandStack # <<>>
                /\ IsEnd(data)
                /\ XscInstruction(data) )
              => /\ _commandStack' = Front(_commandStack)
                 /\ compileResult' = "run"
                 /\ nodes' = nodes ]_vars
    /\ []( \A data \in InstructionData :
              ( /\ compileResult = "run"
                /\ _commandStack # <<>>
                /\ domCount < MaxDom
                /\ IsEnd(data) )
              => ENABLED EndPops(data) )

\* C28 witness: in <a><?xsc for r?> the third node read was an end, "end if"
\* as well as "end for": the For is closed and a is the insertion point.
C28_Witness ==
    /\ compileResult = "run"
    /\ domCount = 3
    /\ Len(nodes) = 3
    /\ nodes[3] = XscForNode("r")
    /\ _commandStack = <<>>
    /\ _xscStack = <<1, 2>>

\* The step for the instruction data has added an If node.
AddsIf(data) ==
    /\ compileResult = "run"
    /\ Len(nodes') = Len(nodes) + 1
    /\ nodes'[Len(nodes')].class = "XscIfNode"
    /\ XscInstruction(data)

\* The text of an instruction "if C" after the keyword and one separator.
AfterSeparator(data) == SubSeq(data, 3, Len(data))

\* C30 (the claim as stated): the condition of the If node made for the
\* instruction "if C" is C, without the separating blank.
C30_ConditionWithoutSeparator ==
    [][ \A data \in InstructionData :
          AddsIf(data) => nodes'[Len(nodes')].condition = AfterSeparator(data)
      ]_vars

\* C30 (amended): the condition of the If node made for the instruction
\* "if C" is the text after the keyword: C with the separator before it.
C30_ConditionKeepsSeparator ==
    [][ \A data \in InstructionData :
          AddsIf(data)
            => /\ data[1] = "if"
               /\ nodes'[Len(nodes')].condition
                    = <<data[2]>> \o AfterSeparator(data)
               /\ data[2] \in WhiteSpace
      ]_vars

\* C30 witness: the If node of <a><?xsc if x?> holds " x".
C30_Witness ==
    /\ Len(nodes) = 3
    /\ nodes[3].class = "XscIfNode"
    /\ nodes[3].condition = <<" ", "x">>
    /\ _commandStack = <<3>>

-----------------------------------------------------------------------------
(***************************************************************************)
(* Claims about the execution (checked under SpecWrite)                    *)
(***************************************************************************)

\* The children of the document element a, and the calls for a itself.
TopNodes == nodes[2].childNodes

StartOfA == StartTag("a", EmptyDict)

EndOfA == EndTag("a")

IsFor(node) == nodes[node].class = "XscForNode"

\* The frames of writeStack that belong to For nodes with the same rider,
\* the first one the outer.
SameRiderFors(i, j) ==
    /\ i < j
    /\ IsFor(writeStack[i].node)
    /\ IsFor(writeStack[j].node)
    /\ nodes[writeStack[i].node].rider = nodes[writeStack[j].node].rider

\* The template is <a><?xsc python r = 7?><?xsc for r?>...<?xsc end for?></a>
PythonThenFor ==
    /\ Len(TopNodes) = 2
    /\ nodes[TopNodes[1]] = XscPythonNode(<<"\n", "r", "=", "7">>)
    /\ IsFor(TopNodes[2])
    /\ nodes[TopNodes[2]].rider = "r"

\* C3 (the claim as stated): a For over r only shadows what r was bound to
\* before. (a) While a For over r that is the only child of another For
\* over r is between two steps, or has finished its last step, r is bound
\* to the row view of the enclosing For again. (b) When r was bound by a
\* code block before a For over r, r has that value again once the
\* conversion is done.
C3_PriorBindingRestored ==
    /\ \A i \in 1..Len(writeStack) :
         LET j == i + 1 IN
         ( /\ j <= Len(writeStack)
           /\ SameRiderFors(i, j)
           /\ nodes[writeStack[i].node].childNodes = <<writeStack[j].node>>
           /\ writeStack[j].at = "rows"
           /\ writeResult = "run" )
         => xscGlobals[nodes[writeStack[i].node].rider]
              = VariablesValue(writeStack[i].variables)
    /\ (writeResult = "done" /\ PythonThenFor)
         => xscGlobals["r"] = IntValue(7)

\* C4 (the claim as stated): a For over r inside the body of a For over r
\* never gets to bind r: no two calls of XscForNode.write with the same
\* rider are both inside a step of their loops.
C4_NestedRiderNeverRebound ==
    \A i, j \in 1..Len(writeStack) :
        SameRiderFors(i, j)
          => ~(writeStack[i].at = "children" /\ writeStack[j].at = "children")

\* The value row number i of rider's source has under field.
FieldValue(rider, i, field) ==
    LET source == sourceNameToSourceMap[rider]
        position == CHOOSE k \in 1..Len(source.fieldNames) :
                        source.fieldNames[k] = field
    IN source.data[i][position]

\* The only child of a is a For over a known source whose children are
\* empty elements b and, when the rider is r, texts that read r.g.
ReadsG(node) == nodes[node] = TextNode(<<"$", "{", "r", ".", "g", "}">>)

PlainFor ==
    /\ Len(TopNodes) = 1
    /\ IsFor(TopNodes[1])
    /\ nodes[TopNodes[1]].rider \in DOMAIN sourceNameToSourceMap
    /\ \A k \in 1..Len(nodes[TopNodes[1]].childNodes) :
         LET child == nodes[TopNodes[1]].childNodes[k] IN
           \/ nodes[child] = ElementNode("b", <<>>)
           \/ ReadsG(child) /\ nodes[TopNodes[1]].rider = "r"

\* The calls one traversal of the children from position k on makes while
\* row number i is bound.
RECURSIVE CallsOfStep(_, _, _, _)
CallsOfStep(rider, children, k, i) ==
    IF k > Len(children) THEN <<>>
    ELSE (IF ReadsG(children[k])
            THEN <<Text(FieldValue(rider, i, "g").value)>>
            ELSE <<StartTag("b", EmptyDict), EndTag("b")>>)
         \o CallsOfStep(rider, children, k + 1, i)

\* The calls of the steps for the rows from number i on.
RECURSIVE CallsOfRows(_, _, _)
CallsOfRows(rider, children, i) ==
    IF i > Len(sourceNameToSourceMap[rider].data) THEN <<>>
    ELSE CallsOfStep(rider, children, 1, i)
         \o CallsOfRows(rider, children, i + 1)

ConditionIsFalse ==
    /\ topNode.childNodes # <<>>
    /\ Eval(topNode.condition, xscGlobals).raised = ""
    /\ ~Truthy(Eval(topNode.condition, xscGlobals).value)

RaisedEntering(classes) ==
    /\ writeResult \notin {"run", "done"}
    /\ topFrame.at = "enter"
    /\ topNode.class \in classes

\* C14 (the claim as stated): whatever the evaluation of a placeholder of a
\* text or of an attribute value raises, the exception that ends the
\* conversion is XscValueError.
C14_PlaceHolderFailureIsValueError ==
    RaisedEntering({"TextNode", "ElementNode"})
        => writeResult = "XscValueError"

\* C15 (the claim as stated): whatever the evaluation of the condition of
\* an If with children raises, the exception that ends the conversion is
\* XscValueError.
C15_ConditionFailureIsValueError ==
    RaisedEntering({"XscIfNode"}) => writeResult = "XscValueError"

\* A call of XscForNode.write whose rider is no key of the mapping, whose
\* source has no row, whose node has no children.
RiderMissing(frame) ==
    /\ IsFor(frame.node)
    /\ nodes[frame.node].rider \notin DOMAIN sourceNameToSourceMap

DataOf(frame) == sourceNameToSourceMap[nodes[frame.node].rider].data

NoRows(frame) ==
    /\ IsFor(frame.node)
    /\ ~RiderMissing(frame)
    /\ DataOf(frame) = <<>>

Childless(frame) ==
    /\ IsFor(frame.node)
    /\ ~RiderMissing(frame)
    /\ nodes[frame.node].childNodes = <<>>

Running == writeResult = "run" /\ writeStack # <<>>

\* C16: a For whose rider is no key of the mapping ends the conversion with
\* a KeyError in its first step: the call never gets past its first
\* statement and never calls a child, the step that raises leaves the
\* writer's calls and globals() as they are, and nothing is done after an
\* exception; a For without children is no exception to this.
C16_MissingRiderRaisesFirst ==
    /\ [](\A k \in 1..Len(writeStack) :
            RiderMissing(writeStack[k])
              => /\ k = Len(writeStack)
                 /\ writeStack[k].at = "enter"
                 /\ writeResult \in {"run", "KeyError"})
    /\ [][ /\ writeResult = "run"
           /\ (Running /\ RiderMissing(topFrame))
                => /\ writeResult' = "KeyError"
                   /\ UNCHANGED <<writeStack, xmlEvents, xscGlobals>> ]_vars

\* C16 witness: a For with children over a rider that is no key has raised
\* the KeyError; nothing was bound.
C16_Witness ==
    /\ writeResult = "KeyError"
    /\ RiderMissing(topFrame)
    /\ topNode.childNodes # <<>>
    /\ xscGlobals = NoGlobals

\* C17: a For over a source without rows calls none of its children,
\* whatever they are, and raises nothing; its two steps, up to the loop and
\* the end of the loop, leave the writer's calls and globals() as they are,
\* and the second one returns.
C17_NoRowsNoTraversal ==
    /\ [](\A k \in 1..Len(writeStack) :
            NoRows(writeStack[k])
              => /\ k = Len(writeStack)
                 /\ writeStack[k].at \in {"enter", "rows"}
                 /\ writeResult = "run")
    /\ [][ (Running /\ NoRows(topFrame))
             => /\ UNCHANGED <<xmlEvents, xscGlobals, writeResult>>
                /\ topFrame.at = "enter" => Len(writeStack') = Len(writeStack)
                /\ topFrame.at = "rows" => writeStack' = Front(writeStack)
         ]_vars

\* C17 witness: <a><?xsc for r?>${x}<?xsc end for?></a> with no row of r
\* and x bound nowhere is done: only a was written, no name is bound.
C17_Witness ==
    /\ writeResult = "done"
    /\ Len(TopNodes) = 1
    /\ IsFor(TopNodes[1])
    /\ nodes[TopNodes[1]].rider = "r"
    /\ Len(nodes[TopNodes[1]].childNodes) = 1
    /\ nodes[nodes[TopNodes[1]].childNodes[1]] = TextNode(<<"$", "{", "x", "}">>)
    /\ sourceNameToSourceMap["r"].data = <<>>
    /\ xmlEvents = <<StartOfA, EndOfA>>
    /\ xscGlobals = NoGlobals

\* What C18 says of a For without children up to its return: the call is
\* the innermost one and raises nothing, and while a row is bound the rider
\* is the row view.
ChildlessForIterates ==
    \A k \in 1..Len(writeStack) :
        Childless(writeStack[k])
          => /\ k = Len(writeStack)
             /\ writeResult = "run"
             /\ writeStack[k].at = "children"
                  => xscGlobals[nodes[writeStack[k].node].rider]
                       = VariablesValue(writeStack[k].variables)

\* No step of a For without children calls the writer; the step after a
\* row was bound unbinds the rider; the loop takes one more row in each
\* round and the call returns only when every row was taken.
ChildlessForStep ==
    (Running /\ Childless(topFrame))
      => /\ UNCHANGED <<xmlEvents, writeResult>>
         /\ topFrame.at = "children"
              => /\ xscGlobals'[topNode.rider] = Unbound
                 /\ writeStack' = WithTop([topFrame EXCEPT !.at = "rows"])
         /\ (topFrame.at = "rows" /\ topFrame.row < Len(DataOf(topFrame)))
              => /\ Len(writeStack') = Len(writeStack)
                 /\ writeStack'[Len(writeStack)].row = topFrame.row + 1
                 /\ writeStack'[Len(writeStack)].at = "children"
         /\ (topFrame.at = "rows" /\ topFrame.row >= Len(DataOf(topFrame)))
              => /\ topFrame.row = Len(DataOf(topFrame))
                 /\ writeStack' = Front(writeStack)

ChildlessForReturns ==
    /\ Running
    /\ Childless(topFrame)
    /\ topFrame.at = "rows"
    /\ writeStack' = Front(writeStack)

\* C18 (the claim as stated): a For without children writes nothing, binds
\* and unbinds the rider once for each row of its source without an error,
\* and when it returns the rider is unbound.
C18_ChildlessForLeavesRiderUnbound ==
    /\ []ChildlessForIterates
    /\ [][ /\ ChildlessForStep
           /\ ChildlessForReturns => xscGlobals'[topNode.rider] = Unbound
         ]_vars

\* C18 (amended): a For without children writes nothing and binds and
\* unbinds the rider once for each row of its source without an error; when
\* it returns the rider is unbound if the source has a row, and is bound to
\* what it was bound to before the For if the source has none.
C18_ChildlessForUnbindsPerRow ==
    /\ []ChildlessForIterates
    /\ [][ /\ ChildlessForStep
           /\ ChildlessForReturns
                => xscGlobals'[topNode.rider] =
                     IF DataOf(topFrame) = <<>>
                       THEN xscGlobals[topNode.rider]
                       ELSE Unbound
         ]_vars

\* C18 witness: a For over r without children has taken both rows of r and
\* is about to return; r is unbound and nothing but the start of a was
\* written.
C18_Witness ==
    /\ Running
    /\ Childless(topFrame)
    /\ topNode.rider = "r"
    /\ topFrame.at = "rows"
    /\ topFrame.row = 2
    /\ Len(DataOf(topFrame)) = 2
    /\ xscGlobals["r"] = Unbound
    /\ xmlEvents = <<StartOfA>>

-----------------------------------------------------------------------------
(***************************************************************************)
(* Claims about main (checked under SpecMain)                              *)
(***************************************************************************)

\* The compiler has read the last node of a document in which a for or if
\* is still open, and takes the step that ends the walk.
WalkEndsWithOpenCommand ==
    /\ compileResult = "run"
    /\ domStack = <<>>
    /\ documentElement
    /\ _commandStack # <<>>
    /\ domCount' = domCount
    /\ compileResult' # "run"

\* The template is what <a><?xsc for r?><b/></a> compiles to: the for is
\* still on the stack of open commands.
ForWithoutEnd ==
    /\ compileResult = "done"
    /\ nodes = Compiled(<<[node |-> XscForNode("r"),
                           below |-> <<[node |-> ElementNode("b", <<>>),
                                        below |-> <<>>]>>]>>,
                        AddChild(<<XscNode("None")>>, Content,
                                 ElementNode("a", <<>>)),
                        2)
    /\ _commandStack = <<3>>

Raised(result) == result \notin {"idle", "run", "done"}

\* The riders of the For nodes below a node of the template.
RECURSIVE RidersBelow(_)
RidersBelow(node) ==
    UNION { (IF IsFor(nodes[node].childNodes[k])
               THEN {nodes[nodes[node].childNodes[k]].rider} ELSE {})
            \cup RidersBelow(nodes[node].childNodes[k]) :
              k \in 1..Len(nodes[node].childNodes) }

\* No For of the template is inside a For over the same rider.
NoSameRiderNesting ==
    \A node \in 1..Len(nodes) :
        IsFor(node) => nodes[node].rider \notin RidersBelow(node)

\* No code block of the template names a rider.
NoRiderInCode ==
    \A node \in 1..Len(nodes) :
        nodes[node].class = "XscPythonNode"
          => \A i \in 1..Len(nodes[node].code) :
                 nodes[node].code[i] \notin Riders

BoundRiders == { name \in Riders : xscGlobals[name] # Unbound }

\* The riders of the calls of XscForNode.write that are inside a step of
\* their loop over the rows.
RidersInStep ==
    { nodes[writeStack[k].node].rider :
        k \in { j \in 1..Len(writeStack) :
                   IsFor(writeStack[j].node) /\ writeStack[j].at = "children" } }

RidersFollowSteps ==
    /\ writeResult = "run" => BoundRiders = RidersInStep
    /\ writeResult = "done" => BoundRiders = {}

\* C25 (the claim as stated): while a template without a For inside a For
\* over the same rider is written, the riders bound in globals() are the
\* riders of the For nodes inside a step of their loop, and none is bound
\* when the conversion is done.
C25_BoundRidersAreRidersInStep == NoSameRiderNesting => RidersFollowSteps

\* C25 (amended): the same for the templates whose code blocks name no
\* rider.
C25_BoundRidersAreRidersInStepUnlessCode ==
    (NoSameRiderNesting /\ NoRiderInCode) => RidersFollowSteps

\* C25 witness: a For over s inside a For over r, both inside a step.
C25_Witness ==
    /\ writeResult = "run"
    /\ NoSameRiderNesting
    /\ NoRiderInCode
    /\ RidersInStep = {"r", "s"}
    /\ BoundRiders = {"r", "s"}

\* The calls of XscForNode.write that are inside a step of their loop.
ForsInStep ==
    { k \in 1..Len(writeStack) :
        IsFor(writeStack[k].node) /\ writeStack[k].at = "children" }

\* C26 (the claim as stated): when an exception raised inside the body of a
\* For has ended the conversion, neither the rider of that For nor
\* _xscVariables is bound to the row view of the step any more, and with no
\* code block in the template globals() holds no rider at all, as before the
\* conversion.
C26_AbortInsideForPopsBindings ==
    (Raised(writeResult) /\ NoSameRiderNesting) =>
        /\ \A k \in ForsInStep :
              LET view == VariablesValue(writeStack[k].variables) IN
              /\ xscGlobals[nodes[writeStack[k].node].rider] # view
              /\ xscGlobals["_xscVariables"] # view
        /\ NoRiderInCode => BoundRiders = {}

\* ---------------------------------------------------------------------------
\* Claims about the with statements of Converter.write

\* C23: once Converter.write is left, by its return or by an exception of
\* any node, the XmlWriter has been exited and the output file closed; while
\* it runs both are open; and no step adds a writer call once the XmlWriter
\* has been exited.
C23_WriterClosedOnEveryPath ==
    /\ []( writeResult = "run" =>
              xmlWriter = "entered" /\ targetXmlFile = "open" )
    /\ []( writeResult # "run" =>
              xmlWriter = "exited" /\ targetXmlFile = "closed" )
    /\ [][ xmlWriter = "exited" => xmlEvents' = xmlEvents ]_vars

\* C23 witness: a text inside an element raised after the element's
\* startTag; the XmlWriter has been exited and the file closed.
C23_Witness ==
    /\ writeResult = "XscValueError"
    /\ xmlWriter = "exited"
    /\ targetXmlFile = "closed"
    /\ Len(writeStack) = 3
    /\ Len(xmlEvents) = 1

\* ---------------------------------------------------------------------------
\* Claims about ElementNode.write and its namespace attributes

\* The writer calls an element c makes when x is bound to 1.
CallsOfC ==
    << AddNamespace("", <<"u">>), AddNamespace("p", <<"v">>),
       StartTag("c", DictSet(EmptyDict, "k", <<"1">>)) >>

IsNamespaceName(name) == name = "xmlns" \/ name \in PrefixedXmlns

\* C21: every xmlns and xmlns:p attribute of an executed element is an
\* addNamespace call (prefix "" respectively p) before the element's startTag,
\* the attributes of a startTag never hold a namespace attribute, and the
\* other attributes arrive with their evaluated values: the startTag of c is
\* preceded by its two addNamespace calls and carries k with the value of x,
\* and an addNamespace call is only followed by the rest of these calls.
C21_NamespacesBeforeStartTag ==
    \A i \in 1..Len(xmlEvents) :
        /\ xmlEvents[i].call = "startTag" =>
              /\ \A name \in DOMAIN xmlEvents[i].value : ~IsNamespaceName(name)
              /\ xmlEvents[i].name = "c" =>
                    /\ i >= 3
                    /\ SubSeq(xmlEvents, i - 2, i) = CallsOfC
        /\ xmlEvents[i].call = "addNamespace" /\ i < Len(xmlEvents) =>
              \/ SubSeq(xmlEvents, i, i + 1) = SubSeq(CallsOfC, 1, 2)
              \/ SubSeq(xmlEvents, i, i + 1) = SubSeq(CallsOfC, 2, 3)

C21_Witness ==
    /\ writeResult = "done"
    /\ xmlEvents = <<StartOfA>> \o CallsOfC \o <<EndTag("c"), EndOfA>>

\* Everything main does has completed without raising.
AllCompleted ==
    /\ mainAt = "return"
    /\ compileResult = "done"
    /\ IF dataSourceMap = <<>> THEN writeResult = "idle"
       ELSE writeResult = "done"

\* C22: main returns exitCode 0 and no error exactly when _parsedOptions,
\* XscTemplate and, with data sources, convert have completed; an exception
\* of the compilation or of the conversion is returned as exitError with a
\* non-zero exitCode; exitCode is 0 only once main has returned; with no data
\* source the conversion has not started and nothing was written.
C22_ExitCodeZeroIffAllCompleted ==
    /\ exitCode = 0 => mainAt = "return"
    /\ mainAt = "return" =>
         /\ (exitCode = 0 /\ exitError = "None") <=> AllCompleted
         /\ exitCode = 0 \/ exitError # "None"
         /\ Raised(compileResult) =>
                exitCode # 0 /\ exitError = compileResult
         /\ Raised(writeResult) =>
                exitCode # 0 /\ exitError = writeResult
    /\ dataSourceMap = <<>> =>
         /\ writeResult = "idle"
         /\ writeStack = <<>>
         /\ xmlEvents = <<>>

\* C22 witness: main has returned 0 for a template of three nodes and no
\* data source.
C22_Witness ==
    /\ mainAt = "return"
    /\ exitCode = 0
    /\ exitError = "None"
    /\ dataSourceMap = <<>>
    /\ domCount = 3
    /\ writeResult = "idle"

-----------------------------------------------------------------------------
(***************************************************************************)
(* Claims about splitDataSourceDefintion (checked under SpecSplit)         *)
(***************************************************************************)

IsPythonName(text) ==
    /\ text # <<>>
    /\ text[1] \in Letters
    /\ \A i \in 1..Len(text) : text[i] \in Letters \cup Digits

\* A Python name with blanks before or after it.
IsPaddedName(text) ==
    \E i \in 1..Len(text) : \E j \in i..Len(text) :
        /\ IsPythonName(SubSeq(text, i, j))
        /\ \A k \in 1..Len(text) : k < i \/ k > j => text[k] = " "

Colons(text) == { i \in 1..Len(text) : text[i] = ":" }

NamePart(text) ==
    IF Colons(text) = {} THEN text
    ELSE SubSeq(text, 1, (CHOOSE i \in Colons(text) :
                              \A j \in Colons(text) : i <= j) - 1)

\* A definition is N, N:D or N:D@C with D free of "@".
IsSplit(text, N, D, C) ==
    \/ D = None /\ C = None /\ text = N
    \/ D # None /\ C = None /\ text = N \o <<":">> \o D
    \/ D # None /\ C # None /\ text = N \o <<":">> \o D \o <<"@">> \o C

\* C24: a definition with a Python name N before its first colon gives
\* (N, None, None), (N, D, None) or (N, D, C) with the definition being N,
\* N:D or N:D@C and D free of "@"; a name part that is empty, blank or no
\* single Python name raises XscSyntaxError. (A name with blanks around it
\* may do either.)
C24_SplitsOrRaisesSyntaxError ==
    splitResult.raised \notin {"idle", "none"} =>
        IF IsPythonName(NamePart(definition))
          THEN /\ splitResult.raised = ""
               /\ splitResult.dataSourceName = NamePart(definition)
               /\ IsSplit(definition, splitResult.dataSourceName,
                          splitResult.dataSourcePath, splitResult.cidPath)
               /\ splitResult.dataSourcePath # None =>
                      \A i \in 1..Len(splitResult.dataSourcePath) :
                          splitResult.dataSourcePath[i] # "@"
        ELSE \/ splitResult.raised = "XscSyntaxError"
             \/ IsPaddedName(NamePart(definition))

\* The part of C24 about the results and the names that are rejected with
\* XscSyntaxError, leaving out only the names the tokenizer itself rejects.
C24_SplitsUnlessTokenError ==
    splitResult.raised # "TokenError" => C24_SplitsOrRaisesSyntaxError

C24_Witness ==
    /\ definition = <<"a", ":", "a", "@">>
    /\ splitResult = SplitResult("", <<"a">>, <<"a">>, <<>>)

-----------------------------------------------------------------------------
(***************************************************************************)
(* Claims about the compiled tree (checked under SpecDocument)             *)
(***************************************************************************)

\* The events of domDocument that open and close something: an element or
\* a for or if, the end of an element or an end.
FirstWord(event) == Split(event.data)[1]

IsDirective(event) ==
    event.kind = "instruction" /\ FirstWord(event) \in {<<"for">>, <<"if">>}

IsEndDirective(event) ==
    event.kind = "instruction" /\ FirstWord(event) = <<"end">>

IsOpener(event) == event.kind = "element" \/ IsDirective(event)

IsCloser(event) == event.kind = "end" \/ IsEndDirective(event)

\* How many elements and directives are open after the first n events.
Level(n) ==
    Cardinality({ j \in 1..n : IsOpener(domDocument[j]) })
      - Cardinality({ j \in 1..n : IsCloser(domDocument[j]) })

\* The last opener before event i that is still open at i; 0 for none.
EnclosingOpener(i) ==
    LET openers == { j \in 1..(i - 1) : /\ IsOpener(domDocument[j])
                                        /\ Level(j - 1) = Level(i - 1) - 1 }
    IN  IF openers = {} THEN 0
        ELSE CHOOSE j \in openers : \A k \in openers : k <= j

\* Every for and if is closed by an end among the children of the element
\* it is a child of: openers and closers nest, every end of an element
\* closes an element and every end directive a for or if.
WellFormed ==
    /\ \A n \in 1..Len(domDocument) : Level(n) >= 0
    /\ Level(Len(domDocument)) = 0
    /\ \A k \in 1..Len(domDocument) :
         IsCloser(domDocument[k]) =>
           /\ EnclosingOpener(k) # 0
           /\ (domDocument[k].kind = "end")
                <=> (domDocument[EnclosingOpener(k)].kind = "element")

\* The events that are nodes of the raw tree, and the index in nodes of the
\* node made for event i: content is 1, the others follow in document order.
IsRawNode(i) == ~IsCloser(domDocument[i])

NodeOf(i) == 1 + Cardinality({ j \in 1..i : IsRawNode(j) })

\* The raw nodes that belong below the node with index n: those whose
\* enclosing opener is the event of n.
RawChildren(n) ==
    { NodeOf(i) : i \in { j \in 1..Len(domDocument) :
                            /\ IsRawNode(j)
                            /\ NodeOf(EnclosingOpener(j)) = n } }

\* The node made for an event is of the event's kind.
NodeIsFor(node, event) ==
    IF event.kind = "element"
      THEN node.class = "ElementNode" /\ node.name = event.name
    ELSE IF event.kind = "text"
      THEN node.class = "TextNode" /\ node.data = event.data
    ELSE IF FirstWord(event) = <<"for">>
      THEN node.class = "XscForNode" /\ node.rider = Name(Split(event.data)[2])
    ELSE node.class = "XscIfNode"

\* nodes is the raw tree with every for and if made the parent of the raw
\* nodes up to its end: each node's children are its raw children in
\* document order.
TreeAsNested ==
    /\ Len(nodes) = NodeOf(Len(domDocument))
    /\ \A i \in 1..Len(domDocument) :
         IsRawNode(i) => NodeIsFor(nodes[NodeOf(i)], domDocument[i])
    /\ \A n \in 1..Len(nodes) :
         LET childNodes == nodes[n].childNodes IN
         /\ { childNodes[k] : k \in 1..Len(childNodes) } = RawChildren(n)
         /\ \A k \in 1..(Len(childNodes) - 1) : childNodes[k] < childNodes[k + 1]

\* C29: a document in which every for and if is closed by an end among the
\* children of the same element compiles without an exception, and in the
\* compiled tree the For or If node is a child of the node that was the
\* insertion point at the directive, its children are the raw nodes between
\* the directive and its end, the raw nodes after the end follow it as
\* siblings, and all siblings are in document order.
C29_WellFormedCompilesToNestedTree ==
    WellFormed =>
        /\ compileResult \in {"run", "done"}
        /\ compileResult = "done" => TreeAsNested

\* C29 witness: <a><?xsc for r?>t<?xsc end for?>t</a> is compiled: the For
\* with the first text below it and the second text are the children of a.
C29_Witness ==
    /\ compileResult = "done"
    /\ domDocument = << DomElement("a"), DomInstruction(<<"for", " ", "r">>),
                        DomText(<<"t">>),
                        DomInstruction(<<"end", " ", "for">>),
                        DomText(<<"t">>), DomElementEnd >>
    /\ WellFormed
    /\ nodes[2].childNodes = <<3, 5>>
    /\ nodes[3].childNodes = <<4>>

\* ---------------------------------------------------------------------------
\* Claims about the place holders of a template (checked under SpecMain)

\* An attribute list with a value whose place holders are malformed.
HasMalformedValue(attributes) ==
    \E i \in 1..Len(attributes) : MalformedFrom(attributes[i][2], 1)

\* The writer has been created or has received a call.
OutputBegun == writeResult # "idle" \/ xmlEvents # <<>>

\* The compiled template is <a><!--data--></a>.
OnlyComment(data) ==
    /\ Len(nodes) = 3
    /\ nodes[2].name = "a"
    /\ nodes[2].attributeTemplates = <<>>
    /\ nodes[2].childNodes = <<3>>
    /\ nodes[3] = CommentNode(data)

\* C34: the step of the compiler for a text with a malformed place holder,
\* and for an element with such an attribute value, raises
\* XscInlineSyntaxError and adds no node, whatever for or if is open and
\* before any data is read; so no text of a compiled tree is malformed and
\* the writer is created only for a tree that was compiled to its end. The
\* step for a comment raises nothing and keeps the data as it is, also a
\* lone "$", and the comment's write hands the data to the writer
\* unchanged.
C34_PlaceHoldersCheckedByCompiler ==
    /\ [][ \A data \in TextData :
              (compileResult = "run" /\ MalformedFrom(data, 1) /\ AddText(data))
                => /\ compileResult' = "XscInlineSyntaxError"
                   /\ UNCHANGED <<nodes, xmlEvents, writeResult>> ]_vars
    /\ [][ \A tagName \in TagNames, attributes \in AttributeLists :
              ( /\ compileResult = "run"
                /\ HasMalformedValue(attributes)
                /\ AddElement(tagName, attributes) )
                => /\ compileResult' = "XscInlineSyntaxError"
                   /\ UNCHANGED <<nodes, xmlEvents, writeResult>> ]_vars
    /\ [](\A node \in 1..Len(nodes) :
             nodes[node].class = "TextNode"
               => ~MalformedFrom(nodes[node].data, 1))
    /\ [](OutputBegun => compileResult = "done")
    /\ [][ ProcessComment
             => /\ compileResult' = "run"
                /\ nodes'[Len(nodes')].class = "CommentNode"
                /\ nodes'[Len(nodes')].data \in CommentData ]_vars
    /\ [][ CommentWrite
             => /\ xmlEvents' = Append(xmlEvents, Comment(topNode.data))
                /\ writeResult' = "run" ]_vars
    /\ [](\A data \in CommentData :
             (OnlyComment(data) /\ writeResult = "done")
               => xmlEvents = <<StartOfA, Comment(data), EndOfA>>)

\* C34 witness: the third node of the document, read while a for is open,
\* was rejected with XscInlineSyntaxError; no writer was created.
C34_Witness ==
    /\ compileResult = "XscInlineSyntaxError"
    /\ domCount = 3
    /\ Len(nodes) = 3
    /\ nodes[3].class = "XscForNode"
    /\ _commandStack = <<3>>
    /\ ~OutputBegun
    /\ mainAt = "try"

\* C34 witness for the comment: <a><!--$--></a>, whose comment is no well
\* formed template, was compiled and written.
C34_CommentWitness ==
    /\ OnlyComment(<<"$">>)
    /\ MalformedFrom(<<"$">>, 1)
    /\ writeResult = "done"
    /\ xmlEvents = <<StartOfA, Comment(<<"$">>), EndOfA>>

\* ---------------------------------------------------------------------------
\* Claims about the first exception of a pass

\* The calls of write on the stack are the path from the content to the
\* innermost call: each one is in its loop over the children, at the child
\* whose call is the next on the stack.
CallsAreOnePath ==
    \A k \in 1..(Len(writeStack) - 1) :
        /\ writeStack[k].at = "children"
        /\ writeStack[k].index \in 1..Len(nodes[writeStack[k].node].childNodes)
        /\ nodes[writeStack[k].node].childNodes[writeStack[k].index]
             = writeStack[k + 1].node

\* C33: the step in which an exception is raised enters no node and
\* returns from none; once an exception has been raised no step of any node
\* is possible, so the calls of the writer, the calls of write and the
\* bindings stay as the failing node left them; the calls of write are then
\* the path to the failing node, whose later siblings and later rows were
\* not begun.
C33_FirstErrorStopsTraversal ==
    /\ [][ (writeResult = "run" /\ Raised(writeResult'))
             => writeStack' = writeStack ]_vars
    /\ [][ Raised(writeResult)
             => UNCHANGED <<xmlEvents, writeStack, xscGlobals, writeResult>>
         ]_vars
    /\ [](Raised(writeResult) => (CallsAreOnePath /\ ~ENABLED WriteNext))

\* C33 witness: in <a>${x}<b/></a> the text has raised XscValueError; the
\* writer has received the start of a only and b was not begun.
C33_Witness ==
    /\ writeResult = "XscValueError"
    /\ Len(TopNodes) = 2
    /\ nodes[TopNodes[1]] = TextNode(<<"$", "{", "x", "}">>)
    /\ nodes[TopNodes[2]] = ElementNode("b", <<>>)
    /\ topFrame.node = TopNodes[1]
    /\ xmlEvents = <<StartOfA>>

\* ---------------------------------------------------------------------------
\* Claims about code blocks

\* The code is the assignment of a literal to the name.
Assigns(code, name) ==
    LET statement == LStrip(code, {"\n"}) IN
    /\ Len(statement) = 3
    /\ statement[1] = name
    /\ statement[2] = "="

\* The step is the write of a code block.
CodeBlockStep == Entering("XscPythonNode")

\* The name is bound to a value only code blocks bind names to.
BoundByCode(globs, name) == globs[name].type = "int"

\* The first child of a is the only code block of the template and assigns
\* the literal to the name; its write has returned.
CodeFirst(name, atom) ==
    /\ Len(TopNodes) >= 1
    /\ nodes[TopNodes[1]] = XscPythonNode(<<"\n", name, "=", atom>>)
    /\ \A node \in 1..Len(nodes) :
          nodes[node].class = "XscPythonNode" => node = TopNodes[1]

AfterFirst ==
    \/ writeResult = "done"
    \/ /\ writeResult = "run"
       /\ Len(writeStack) >= 2
       /\ \/ writeStack[2].index >= 2
          \/ writeStack[2].index = 1 /\ Len(writeStack) = 2

\* A For over the name is in a step of its loop.
Shadowed(name) ==
    \E k \in ForsInStep : nodes[writeStack[k].node].rider = name

IsRider(name) ==
    \E node \in 1..Len(nodes) : IsFor(node) /\ nodes[node].rider = name

\* Each time the traversal enters a code block the code is executed once
\* against globals(), and a name gets the value of a code block only in the
\* step of a code block that assigns it, so that nothing evaluated earlier
\* sees it.
CodeBlockRunsWhenReached ==
    /\ CodeBlockStep
         => xscGlobals' = Exec(topNode.code, xscGlobals).globals
    /\ \A name \in GlobalNames :
         (~BoundByCode(xscGlobals, name) /\ BoundByCode(xscGlobals', name))
           => (CodeBlockStep /\ Assigns(topNode.code, name))

\* C35 (the claim as stated): a code block is executed once each time the
\* traversal reaches it, a name it defines is seen by nothing evaluated
\* earlier, and once the code block has returned the name has the value it
\* was given for the rest of the pass, for every place holder, condition
\* and code block evaluated later, except while a For over the same name
\* is in a step and shadows it.
C35_CodeBlockNamesVisibleLater ==
    /\ [][CodeBlockRunsWhenReached]_vars
    /\ [](\A name \in GlobalNames, atom \in LiteralAtoms :
             (CodeFirst(name, atom) /\ AfterFirst /\ ~Shadowed(name))
               => xscGlobals[name] = IntValue(IntOf(atom)))

\* What holds of C35: the same for the names that are the rider of no For
\* of the template.
C35_CodeBlockNamesVisibleUnlessRider ==
    /\ [][CodeBlockRunsWhenReached]_vars
    /\ [](\A name \in GlobalNames, atom \in LiteralAtoms :
             (CodeFirst(name, atom) /\ AfterFirst /\ ~IsRider(name))
               => xscGlobals[name] = IntValue(IntOf(atom)))

\* <a><?xsc python x = 1?>${x}</a> is done and has written the 1.
C35_Witness ==
    /\ CodeFirst("x", "1")
    /\ writeResult = "done"
    /\ xmlEvents = <<StartOfA, Text(<<"1">>), EndOfA>>

\* ---------------------------------------------------------------------------
\* Claims about an If without children

\* The call on top of writeStack is about to enter an If without children.
EmptyIf ==
    /\ Entering("XscIfNode")
    /\ topNode.childNodes = <<>>

\* C36: the write of an If without children returns at once, whatever the
\* evaluation of its condition would do: the writer receives nothing,
\* nothing is raised and no name is bound or unbound.
C36_EmptyIfEvaluatesNothing ==
    [][ EmptyIf
          => /\ writeStack' = Front(writeStack)
             /\ UNCHANGED <<xmlEvents, xscGlobals, writeStatus>> ]_vars

\* C36 witness: <a><?xsc if x?><?xsc end if?></a> with x bound nowhere is
\* done; the writer has received a only.
C36_Witness ==
    /\ writeResult = "done"
    /\ Len(TopNodes) = 1
    /\ nodes[TopNodes[1]] = XscIfNode(<<" ", "x">>)
    /\ Eval(<<" ", "x">>, xscGlobals).raised = "NameError"
    /\ xmlEvents = <<StartOfA, EndOfA>>
    /\ xscGlobals = NoGlobals

-----------------------------------------------------------------------------
(***************************************************************************)
(* Claims about nested Fors (checked under SpecNested)                     *)
(***************************************************************************)

\* The two Fors of a nested template, their calls of write and the body.
OuterFor == TopNodes[1]

InnerFor == nodes[OuterFor].childNodes[1]

OuterCall == writeStack[3]

InnerCall == writeStack[4]

RowCount(for) == Len(sourceNameToSourceMap[nodes[for].rider].data)

\* The row view of row number i of the For's source.
RowView(for, i) ==
    LET source == sourceNameToSourceMap[nodes[for].rider] IN
    VariablesValue(
        [field \in { source.fieldNames[k] : k \in 1..Len(source.fieldNames) }
           |-> FieldValue(nodes[for].rider, i, field)])

\* The inner For is in a step of its loop; it has returned to the step of
\* the outer For that called it.
InInnerBody ==
    /\ writeResult = "run"
    /\ Len(writeStack) >= 4
    /\ InnerCall.at = "children"

AfterInnerFor ==
    /\ writeResult = "run"
    /\ Len(writeStack) = 3
    /\ OuterCall.at = "children"
    /\ OuterCall.index = 1

\* The calls the writer receives from a node, and from the children from
\* position k on, while row number i of r is bound: a text reads r.g, an
\* If has a true condition, a code block writes nothing.
RECURSIVE CallsOfNode(_, _), CallsOfNodes(_, _, _)
CallsOfNode(node, i) ==
    CASE nodes[node].class = "TextNode" ->
           <<Text(FieldValue("r", i, "g").value)>>
      [] nodes[node].class = "CommentNode" -> <<Comment(nodes[node].data)>>
      [] nodes[node].class = "ElementNode" ->
           <<StartTag(nodes[node].name, EmptyDict)>>
           \o CallsOfNodes(nodes[node].childNodes, 1, i)
           \o <<EndTag(nodes[node].name)>>
      [] nodes[node].class = "XscIfNode" ->
           CallsOfNodes(nodes[node].childNodes, 1, i)
      [] OTHER -> <<>>

CallsOfNodes(children, k, i) ==
    IF k > Len(children) THEN <<>>
    ELSE CallsOfNode(children[k], i) \o CallsOfNodes(children, k + 1, i)

\* The calls of the body for the pairs of rows from (i, j) on, the rows of
\* the outer For first.
RECURSIVE CallsOfPairs(_, _)
CallsOfPairs(i, j) ==
    IF i > RowCount(OuterFor) THEN <<>>
    ELSE IF j > RowCount(InnerFor) THEN CallsOfPairs(i + 1, 1)
    ELSE CallsOfNodes(nodes[InnerFor].childNodes, 1,
                      IF nodes[OuterFor].rider = "r" THEN i ELSE j)
         \o CallsOfPairs(i, j + 1)

\* What C31 says of two nested Fors over different riders. Inside the body
\* of the inner For both riders are bound to the row views of the current
\* rows; after a run of the inner For the outer rider is still bound to the
\* current outer row and the inner rider is unbound; when the pass is done
\* the writer has received the calls of the body once for each pair of
\* rows, the outer rows first.
NestedForsRowMajor ==
    /\ InInnerBody
         => /\ OuterCall.row \in 1..RowCount(OuterFor)
            /\ InnerCall.row \in 1..RowCount(InnerFor)
            /\ xscGlobals[nodes[OuterFor].rider]
                 = RowView(OuterFor, OuterCall.row)
            /\ xscGlobals[nodes[InnerFor].rider]
                 = RowView(InnerFor, InnerCall.row)
    /\ AfterInnerFor
         => /\ xscGlobals[nodes[OuterFor].rider]
                 = RowView(OuterFor, OuterCall.row)
            /\ xscGlobals[nodes[InnerFor].rider] = Unbound
    /\ writeResult = "done"
         => xmlEvents = <<StartOfA>> \o CallsOfPairs(1, 1) \o <<EndOfA>>

-----------------------------------------------------------------------------
(***************************************************************************)
(* Claims about the calls of the writer (checked under SpecWrite)          *)
(***************************************************************************)

\* The names of the elements that are open after the calls from position i
\* on, given the ones open before, innermost last; <<"unbalanced">> when an
\* endTag meets no open element or an element of another name.
RECURSIVE OpenAfter(_, _, _)
OpenAfter(calls, i, open) ==
    IF i > Len(calls) THEN open
    ELSE IF calls[i].call = "startTag"
      THEN OpenAfter(calls, i + 1, Append(open, calls[i].name))
    ELSE IF calls[i].call = "endTag"
      THEN (IF open # <<>> /\ open[Len(open)] = calls[i].name
              THEN OpenAfter(calls, i + 1, SubSeq(open, 1, Len(open) - 1))
              ELSE <<"unbalanced">>)
    ELSE OpenAfter(calls, i + 1, open)

\* The names of the elements whose calls of write are past startTag,
\* outermost first.
RECURSIVE ElementsWritten(_)
ElementsWritten(k) ==
    IF k > Len(writeStack) THEN <<>>
    ELSE (IF /\ nodes[writeStack[k].node].class = "ElementNode"
             /\ writeStack[k].at = "children"
            THEN <<nodes[writeStack[k].node].name>> ELSE <<>>)
         \o ElementsWritten(k + 1)

\* C32: at every moment of a pass the calls received so far leave open
\* exactly the elements whose write is between startTag and endTag, each
\* endTag so far has closed the innermost open element under its own name,
\* and when the pass is done no element is open; the call that ends an
\* element comes when all its children have returned.
C32_TagsBalancedAndNested ==
    /\ [](OpenAfter(xmlEvents, 1, <<>>) = ElementsWritten(1))
    /\ [](writeResult = "done" => OpenAfter(xmlEvents, 1, <<>>) = <<>>)
    /\ [][ (Len(xmlEvents') > Len(xmlEvents)
            /\ xmlEvents'[Len(xmlEvents')].call = "endTag")
           => /\ topNode.class = "ElementNode"
              /\ xmlEvents'[Len(xmlEvents')].name = topNode.name
              /\ topFrame.index = Len(topNode.childNodes)
              /\ xmlEvents' = Append(xmlEvents, EndTag(topNode.name)) ]_vars

\* C32 witness: <a><b><b/></b></a> is done and the writer has received the
\* three startTags and then the three endTags.
C32_Witness ==
    /\ writeResult = "done"
    /\ xmlEvents = <<StartOfA, StartTag("b", EmptyDict),
                     StartTag("b", EmptyDict), EndTag("b"), EndTag("b"),
                     EndOfA>>

-----------------------------------------------------------------------------
(***************************************************************************)
(* Claims about the stacks of the compiler (checked under SpecCompile)     *)
(***************************************************************************)

\* The instruction's first word is end.
IsEndCommand(data) == Split(data) # <<>> /\ Split(data)[1] = <<"end">>

\* C37: the step for an instruction whose command is end, read while no
\* for or if is open, ends the compilation with an exception and leaves
\* _commandStack, _xscStack and the tree as they are.
C37_EndWithNothingOpenRaises ==
    [][ \A data \in InstructionData :
          ( /\ compileResult = "run"
            /\ _commandStack = <<>>
            /\ IsEndCommand(data)
            /\ XscInstruction(data) )
          => /\ Raised(compileResult')
             /\ UNCHANGED <<_commandStack, _xscStack, nodes>> ]_vars

\* C37 witness: in <a><?xsc end for?>... the end was rejected with the
\* AssertionError of _popCommand; the insertion points are still the
\* content and a.
C37_Witness ==
    /\ compileResult = "AssertionError"
    /\ domCount = 2
    /\ Len(nodes) = 2
    /\ _commandStack = <<>>
    /\ _xscStack = <<1, 2>>

\* The nodes that have the node among their childNodes.
ParentsOf(node) ==
    { parent \in 1..Len(nodes) :
        \E k \in 1..Len(nodes[parent].childNodes) :
            nodes[parent].childNodes[k] = node }

\* C38: whatever nodes the DOM has and in whatever order its elements end
\* and its end instructions come, at every moment of the compilation, and
\* after it has ended or failed, _xscStack is not empty, its bottom entry
\* is the content and no other entry is; every other node that was created
\* is the child of exactly one node created before it, so that it is
\* reached from the content.
C38_ContentStaysAtTheBottom ==
    /\ _xscStack # <<>>
    /\ _xscStack[1] = Content
    /\ \A k \in 2..Len(_xscStack) : _xscStack[k] # Content
    /\ ParentsOf(Content) = {}
    /\ \A node \in 2..Len(nodes) :
         /\ Cardinality(ParentsOf(node)) = 1
         /\ \A parent \in ParentsOf(node) : parent < node

\* C38 witness: in <a><b><?xsc for r?></b>... the end of b has been read
\* while the for is open: it popped the for, b is the insertion point and
\* the content is at the bottom.
C38_Witness ==
    /\ compileResult = "run"
    /\ Len(nodes) = 4
    /\ nodes[4].class = "XscForNode"
    /\ domStack = <<2>>
    /\ _commandStack = <<4>>
    /\ _xscStack = <<Content, 2, 3>>

=============================================================================
